---- MODULE Spec2Model ----
(***************************************************************************)
(* Model of src/app.py (DccSpeedToolsPC): the serial worker               *)
(* (SerialReader.run, send_command, stop), the packet router               *)
(* (SerialReader._handle_message, SensorStateStore.handle_packet), the    *)
(* transit state machine (SensorStateStore) and the small stores it feeds. *)
(*                                                                         *)
(* The specifications of the module:                                      *)
(*   Spec       the router and the stores, fed decoded messages            *)
(*   SpecRouter, SpecTransit, SpecState, SpecRecent, SpecWait, SpecInfo    *)
(*              the same actions on the messages of one handler each       *)
(*   SpecDecode the read/decode loop of run(), fed a byte stream           *)
(*   SpecSend   send_command / stop / the worker's start-up, interleaved   *)
(*   SpecLife   the worker from start() to its end, with stop() and a      *)
(*              handler's send_command; SpecLifeFair adds fair scheduling  *)
(*   SpecLocks  the locks of the stores and the write lock, as taken by    *)
(*              the worker and the HTTP handlers; SpecLocksFair adds       *)
(*              fair scheduling of the worker and of a viewer              *)
(***************************************************************************)
EXTENDS Integers, Sequences, FiniteSets, TLC

(***************************************************************************)
(* Python values.  Optional[X] is a sequence of length 0 (None) or 1.      *)
(***************************************************************************)
None == <<>>

Some(x) == <<x>>

\* A decoded CBOR value.  ty is the Python type; n carries a number: an int's
\* value, a bool as 0/1, a float in HALVES (so 0.5 is 1, 1.0 is 2); s a str;
\* l the items of a list; m the entries of a dict, a sequence of <<key, value>>
\* pairs with distinct keys.
PyVal(ty, n, s, l, m) == [ty |-> ty, n |-> n, s |-> s, l |-> l, m |-> m]

PyNone == PyVal("none", 0, "", <<>>, <<>>)

PyBool(b) == PyVal("bool", IF b THEN 1 ELSE 0, "", <<>>, <<>>)

PyInt(i) == PyVal("int", i, "", <<>>, <<>>)

PyFloat(halves) == PyVal("float", halves, "", <<>>, <<>>)

PyStr(s) == PyVal("str", 0, s, <<>>, <<>>)

PyList(items) == PyVal("list", 0, "", items, <<>>)

PyDict(entries) == PyVal("dict", 0, "", <<>>, entries)

\* An int outside the range of a float (a CBOR bignum, tag 2, of 2**1024 or
\* more, such as 10**400): float(v) and v / 1000 raise OverflowError on it.
BigInt == 1000000

\* dict.get(key), None when the key is missing; here the dict is msg
Get(msg, key) ==
    IF \E i \in 1..Len(msg.m) : msg.m[i][1] = key
    THEN msg.m[CHOOSE i \in 1..Len(msg.m) : msg.m[i][1] = key][2]
    ELSE PyNone

\* isinstance(value, int): bool is a subclass of int
IsInstanceInt(value) == value.ty \in {"int", "bool"}

\* float.is_integer()
IsIntegerFloat(value) == value.n % 2 = 0

\* int(value) of a float: truncation toward zero
IntOfFloat(value) == IF value.n >= 0 THEN value.n \div 2 ELSE -((-value.n) \div 2)

\* float(value) of an int or a float, in halves
FloatOf(value) == IF value.ty = "float" THEN value.n ELSE 2 * value.n

\* float(value) raises OverflowError
FloatOverflows(value) == value.ty = "int" /\ value.n >= BigInt

\* bool(value): Python truthiness
Truthy(value) ==
    CASE value.ty = "none" -> FALSE
      [] value.ty \in {"bool", "int", "float"} -> value.n # 0
      [] value.ty = "str" -> value.s # ""
      [] value.ty = "list" -> value.l # <<>>
      [] value.ty = "dict" -> value.m # <<>>
      [] OTHER -> TRUE

\* hash(value) succeeds: lists and dicts are unhashable
Hashable(value) == value.ty \notin {"list", "dict"}

(***************************************************************************)
(* Field validation helpers (module level functions of app.py).           *)
(***************************************************************************)
\* _sensor_index(value): 0, 1, 0.0 or 1.0, never a bool
sensor_index(value) ==
    IF value.ty = "bool" THEN None
    ELSE IF value.ty = "int" /\ value.n \in {0, 1} THEN Some(value.n)
    ELSE IF value.ty = "float" /\ IsIntegerFloat(value)
         THEN IF IntOfFloat(value) \in {0, 1} THEN Some(IntOfFloat(value)) ELSE None
    ELSE None

\* _sensor_name(index), index an Optional[int]
sensor_name(index) ==
    IF index = Some(0) THEN "Sensor 0"
    ELSE IF index = Some(1) THEN "Sensor 1"
    ELSE "Sensor"

\* value.strip().lower() on the strings the model sends
StripLower(s) ==
    CASE s = " BLK " -> "blk"
      [] s = "Clr" -> "clr"
      [] OTHER -> s

\* _sensor_state_from_code(value): Optional[bool]
sensor_state_from_code(value) ==
    IF value.ty # "str" THEN None
    ELSE IF StripLower(value.s) = "blk" THEN Some(TRUE)
    ELSE IF StripLower(value.s) = "clr" THEN Some(FALSE)
    ELSE None

\* an _expected_from_start that expects the start sensor itself
expected_from_start_same(start_sensor) ==
    IF start_sensor = None THEN <<None, None>>
    ELSE <<Some(start_sensor[1]), Some(IF start_sensor[1] = 1 THEN "0->1" ELSE "1->0")>>

\* _expected_from_start(start_sensor): (expected_sensor, expected_direction)
expected_from_start(start_sensor) ==
    IF start_sensor = None THEN <<None, None>>
    ELSE LET expected == 1 - start_sensor[1]
         IN  <<Some(expected), Some(IF expected = 1 THEN "0->1" ELSE "1->0")>>

\* _to_float(value): Optional[float], in halves; raises where ToFloatRaises
to_float(value) ==
    IF value.ty = "bool" THEN None
    ELSE IF value.ty \in {"int", "float"} THEN Some(FloatOf(value))
    ELSE None

\* float(value) at line 643 raises OverflowError
ToFloatRaises(value) == value.ty # "bool" /\ FloatOverflows(value)

\* _to_int(value): Optional[int]
to_int(value) ==
    IF value.ty = "bool" THEN None
    ELSE IF IsInstanceInt(value) THEN Some(value.n)
    ELSE IF value.ty = "float" /\ IsIntegerFloat(value) THEN Some(IntOfFloat(value))
    ELSE None

\* _calc_err_band(mph, err): (err_low, err_high)
calc_err_band(mph, err) ==
    IF mph = None \/ err = None THEN <<None, None>>
    ELSE <<Some(mph[1] - err[1]), Some(mph[1] + err[1])>>

\* One entry of a version or product array is a non-boolean integral number
IntegralEntry(entry) ==
    /\ entry.ty # "bool"
    /\ entry.ty \in {"int", "float"}
    /\ IsIntegerFloat(PyFloat(FloatOf(entry)))

\* int(entry) of an integral entry
EntryInt(entry) == IF entry.ty = "float" THEN IntOfFloat(entry) ELSE entry.n

\* _format_version_array(value): the joined string "a.b.c" is carried as the
\* sequence <<a, b, c>> of its parts
format_version_array(value) ==
    IF value.ty # "list" \/ value.l = <<>> THEN None
    ELSE IF \A i \in 1..Len(value.l) : IntegralEntry(value.l[i])
         THEN Some([i \in 1..Len(value.l) |-> EntryInt(value.l[i])])
    ELSE None

\* float(entry) at line 603 raises: an entry out of float range is reached
\* before any entry that makes the function return None
VersionArrayRaises(value) ==
    /\ value.ty = "list"
    /\ \E i \in 1..Len(value.l) :
          /\ value.l[i].ty # "bool"
          /\ FloatOverflows(value.l[i])
          /\ \A j \in 1..(i - 1) : IntegralEntry(value.l[j])

\* _format_product_array(value): "Type a Rev b.c" is carried as <<a, b, c>>
format_product_array(value) ==
    IF value.ty # "list" \/ Len(value.l) < 3 THEN None
    ELSE IF \A i \in 1..3 : IntegralEntry(value.l[i])
         THEN Some([i \in 1..3 |-> EntryInt(value.l[i])])
    ELSE None

\* float(entry) at line 616 raises
ProductArrayRaises(value) ==
    /\ value.ty = "list"
    /\ Len(value.l) >= 3
    /\ \E i \in 1..3 :
          /\ value.l[i].ty # "bool"
          /\ FloatOverflows(value.l[i])
          /\ \A j \in 1..(i - 1) : IntegralEntry(value.l[j])

(***************************************************************************)
(* Labels.  A label is its text, with the formatted numbers kept beside    *)
(* the format ("%.1f" of halves is exact, so the numbers identify it).     *)
(***************************************************************************)
Label(text, args) == [text |-> text, args |-> args]

\* f"{_sensor_name(sensor)} blocked" / " clear" in _handle_state
StateLabel(sensor, active) ==
    IF active = Some(TRUE) /\ sensor # None
    THEN Some(Label(IF sensor = Some(0) THEN "Sensor 0 blocked" ELSE "Sensor 1 blocked", <<>>))
    ELSE IF active = Some(FALSE) /\ sensor # None
    THEN Some(Label(IF sensor = Some(0) THEN "Sensor 0 clear" ELSE "Sensor 1 clear", <<>>))
    ELSE None

\* the label of _handle_start
StartLabel(sensor) ==
    IF sensor = Some(0) THEN Label("Transit started at Sensor 0", <<>>)
    ELSE IF sensor = Some(1) THEN Label("Transit started at Sensor 1", <<>>)
    ELSE Label("Transit started", <<>>)

\* the label of _handle_finish
FinishLabel(sensor) ==
    IF sensor = Some(0) THEN Label("Transit finished at Sensor 0", <<>>)
    ELSE IF sensor = Some(1) THEN Label("Transit finished at Sensor 1", <<>>)
    ELSE Label("Transit finished", <<>>)

\* f"Waiting for {target}" followed by the format of the numbers
WaitText(target, form) ==
    CASE target = "Sensor 0" /\ form = 2 -> "Waiting for Sensor 0 (%.1fs / %.1fs)"
      [] target = "Sensor 0" /\ form = 1 -> "Waiting for Sensor 0 (%.1fs)"
      [] target = "Sensor 0" /\ form = 0 -> "Waiting for Sensor 0"
      [] target = "Sensor 1" /\ form = 2 -> "Waiting for Sensor 1 (%.1fs / %.1fs)"
      [] target = "Sensor 1" /\ form = 1 -> "Waiting for Sensor 1 (%.1fs)"
      [] target = "Sensor 1" /\ form = 0 -> "Waiting for Sensor 1"
      [] target = "second sensor" /\ form = 2 -> "Waiting for second sensor (%.1fs / %.1fs)"
      [] target = "second sensor" /\ form = 1 -> "Waiting for second sensor (%.1fs)"
      [] OTHER -> "Waiting for second sensor"

\* _format_wait_label(expected_sensor, elapsed_s, timeout_s)
format_wait_label(expected_sensor, elapsed_s, timeout_s) ==
    LET target == IF expected_sensor # None THEN sensor_name(expected_sensor)
                  ELSE "second sensor"
    IN  IF elapsed_s # None /\ timeout_s # None
        THEN Label(WaitText(target, 2), <<elapsed_s[1], timeout_s[1]>>)
        ELSE IF elapsed_s # None
        THEN Label(WaitText(target, 1), <<elapsed_s[1]>>)
        ELSE Label(WaitText(target, 0), <<>>)

\* _format_timeout_label(elapsed_s)
format_timeout_label(elapsed_s) ==
    IF elapsed_s # None THEN Label("Timed out after %.1fs", <<elapsed_s[1]>>)
    ELSE Label("Timed out waiting for sensor", <<>>)

\* _format_reject_label(dt_us, min_us)
format_reject_label(dt_us, min_us) ==
    IF dt_us # None /\ min_us # None
    THEN Label("Transit rejected (%.2f ms < %.2f ms)", <<dt_us[1], min_us[1]>>)
    ELSE Label("Transit rejected", <<>>)

\* dt_us / 1000 or min_us / 1000 at line 591 raises OverflowError
RejectLabelRaises(dt_us, min_us) ==
    /\ dt_us # None
    /\ min_us # None
    /\ (dt_us[1] >= BigInt \/ min_us[1] >= BigInt)

\* a derivation that reads "not blocked" where the code reads "clear"
derive_state_label_loose(sensor_1_active, sensor_2_active) ==
    IF sensor_1_active = Some(TRUE) /\ sensor_2_active = Some(TRUE)
    THEN Some(Label("Both sensors blocked", <<>>))
    ELSE IF sensor_1_active = Some(TRUE)
    THEN Some(Label("Sensor 0 blocked", <<>>))
    ELSE IF sensor_2_active = Some(TRUE)
    THEN Some(Label("Sensor 1 blocked", <<>>))
    ELSE Some(Label("Idle", <<>>))

\* _derive_state_label(sensor_1_active, sensor_2_active)
derive_state_label(sensor_1_active, sensor_2_active) ==
    IF sensor_1_active = Some(TRUE) /\ sensor_2_active = Some(TRUE)
    THEN Some(Label("Both sensors blocked", <<>>))
    ELSE IF sensor_1_active = Some(TRUE) /\ sensor_2_active = Some(FALSE)
    THEN Some(Label("Sensor 0 blocked", <<>>))
    ELSE IF sensor_1_active = Some(FALSE) /\ sensor_2_active = Some(TRUE)
    THEN Some(Label("Sensor 1 blocked", <<>>))
    ELSE IF sensor_1_active = Some(FALSE) /\ sensor_2_active = Some(FALSE)
    THEN Some(Label("Idle", <<>>))
    ELSE None

(***************************************************************************)
(* State.                                                                  *)
(***************************************************************************)
VARIABLES
    now,                 \* time.time(), in ticks
    \* SensorStateStore
    sensor_active,       \* _sensor_active: {0, 1} -> Optional[bool]
    sensor_info,         \* _sensor_info: {0, 1} -> info dict
    state_label,         \* _state_label
    expected_direction,  \* _expected_direction
    expected_sensor,     \* _expected_sensor
    waiting,             \* _waiting
    last_start_sensor,   \* _last_start_sensor
    wait_elapsed_s,      \* _wait_elapsed_s
    wait_timeout_s,      \* _wait_timeout_s
    finishing_label,     \* _finishing_label
    finishing_until,     \* _finishing_until
    received_at,         \* _received_at
    received_iso,        \* _received_iso
    last_measurement,    \* _last_measurement
    \* MeasurementStore, DeviceInfoStore, ConfigStore
    measurements,        \* MeasurementStore._measurements, oldest first
    device_info,         \* DeviceInfoStore: version, version_iso
    config_store,        \* ConfigStore: distance_mm, look_mm, timeout_s, received_iso
    \* the worker inside SerialReader._handle_message
    worker,              \* "idle", "add", "update", or "raised"
    message,             \* the message being handled (between its steps)
    measurement,         \* the local Measurement built from it
    transit_at,          \* history: the time the last transit event was handled
    event_at,            \* history: the time the last state-machine event was handled
    after_transit,       \* history: that event was a transit
    arrived,             \* history: the transit messages handled, in order of arrival
    \* SerialReader
    serial,              \* self._serial: "none" (None), "open" or "closed"
    stop_event,          \* self._stop_event.is_set()
    write_lock,          \* self._write_lock: -1 when free, else the thread holding it
    run_pc,              \* where run() is: "open", "getv", "loop", "read", "decode",
                         \* "stopped" (line 379) or "failed" (line 342)
    buffer,              \* the local bytearray of run()
    send_pc,             \* per thread, where it is in send_command
    payload,             \* per thread, the payload passed to send_command
    sent,                \* per thread, how many bytes serial.write has put out
    flushed,             \* the threads whose serial.flush() has returned
    stop_pc,             \* where the thread calling stop() is: "idle" before the
                         \* call, "close" at line 331, "done" after it returned,
                         \* "caught" after it returned through line 335
    \* the serial line
    units,               \* what the device sends: a sequence of byte sequences
    pos,                 \* how many of its bytes have been read
    wire,                \* what was written to the device: <<thread, byte>> pairs
    dispatched,          \* history: the messages passed to _handle_message
    err_pos,             \* history: pos at the last buffer.clear()
    err_dispatched,      \* history: Len(dispatched) at the last buffer.clear()
    \* the locks of the four stores (the write lock is write_lock)
    locks,               \* per store lock, the thread holding it, -1 when free
    at                   \* per thread, the store locks its current call has yet
                         \* to take, whether it holds the first of them, and how
                         \* many calls it has begun

storeVars ==
    <<sensor_active, sensor_info, state_label, expected_direction, expected_sensor,
      waiting, last_start_sensor, wait_elapsed_s, wait_timeout_s, finishing_label,
      finishing_until, received_at, received_iso, last_measurement>>

otherStores == <<measurements, device_info, config_store>>

lockVars == <<locks, at>>

\* what the router and the stores keep
routerState ==
    <<now, storeVars, otherStores, worker, message, measurement, transit_at, event_at,
      after_transit, arrived>>

\* what the reader and the serial line keep
readerState ==
    <<serial, stop_event, write_lock, run_pc, buffer, send_pc, payload, sent, flushed,
      stop_pc, units, pos, wire, dispatched, err_pos, err_dispatched>>

\* everything an action of the reader leaves alone
routerVars == <<routerState, lockVars>>

\* everything an action of the router leaves alone
readerVars == <<readerState, lockVars>>

\* FINISH_HOLD_S, in ticks
FINISH_HOLD_S == 3

\* MeasurementStore.__init__(maxlen=10)
maxlen == 10

\* time.strftime("%Y-%m-%d %H:%M:%S", time.localtime()): the clock reading as text
StrfTime(t) == [iso |-> t]

\* SensorStateStore.__init__ and the module level singletons
InitStores ==
    /\ sensor_active = [i \in {0, 1} |-> None]
    /\ sensor_info = [i \in {0, 1} |-> [driver |-> None, product |-> None, uid |-> None]]
    /\ state_label = None
    /\ expected_direction = None
    /\ expected_sensor = None
    /\ waiting = None
    /\ last_start_sensor = None
    /\ wait_elapsed_s = None
    /\ wait_timeout_s = None
    /\ finishing_label = None
    /\ finishing_until = None
    /\ received_at = None
    /\ received_iso = None
    /\ last_measurement = None
    /\ measurements = <<>>
    /\ device_info = [version |-> None, version_iso |-> None]
    /\ config_store = [distance_mm |-> None, look_mm |-> None, timeout_s |-> None,
                       received_iso |-> None]

\* the threads that call send_command: the worker (run) and the HTTP handlers
MaxHttp == 1

Worker == 0

HttpThreads == 1..MaxHttp

Threads == {Worker} \cup HttpThreads

\* the HTTP handler thread that serves /api/config
Refresher == 1

\* an HTTP handler thread that serves the pages and the read-only routes
Viewer == 2

\* the threads that take store locks
LockThreads == {Worker, Refresher, Viewer}

\* the threading.Lock of each store (lines 45, 58, 77, 114)
StoreLocks == {"state", "measurements", "device", "config"}

\* no thread holds a store lock and no call is under way
InitLocks ==
    /\ locks = [l \in StoreLocks |-> 0 - 1]
    /\ at = [t \in LockThreads |-> [prog |-> <<>>, holding |-> FALSE, calls |-> 0]]

\* SerialReader.__init__; nothing was read or written yet
InitReader ==
    /\ serial = "none"
    /\ stop_event = FALSE
    /\ write_lock = 0 - 1
    /\ run_pc = "open"
    /\ buffer = <<>>
    /\ send_pc = [t \in Threads |-> "idle"]
    /\ payload = [t \in Threads |-> PyNone]
    /\ sent = [t \in Threads |-> 0]
    /\ flushed = {}
    /\ stop_pc = "idle"
    /\ units = <<>>
    /\ pos = 0
    /\ wire = <<>>
    /\ dispatched = <<>>
    /\ err_pos = None
    /\ err_dispatched = None

InitRouter ==
    /\ now = 0
    /\ InitStores
    /\ worker = "idle"
    /\ message = PyNone
    /\ measurement = None
    /\ transit_at = None
    /\ event_at = None
    /\ after_transit = FALSE
    /\ arrived = <<>>
    /\ InitLocks

(***************************************************************************)
(* SensorStateStore: the effect of each handler on the store.              *)
(***************************************************************************)
\* _mark_update()
mark_update ==
    /\ received_at' = Some(now)
    /\ received_iso' = Some(StrfTime(now))

\* a _set_finishing that stores the time of the event, not the end of the hold
set_finishing_no_hold(label) ==
    /\ finishing_label' = Some(label)
    /\ finishing_until' = Some(now)

\* _set_finishing(label)
set_finishing(label) ==
    /\ finishing_label' = Some(label)
    /\ finishing_until' = Some(now + FINISH_HOLD_S)

\* a _handle_state that stores its label whether or not a transit is waited for
handle_state_unguarded(msg) ==
    LET sensor == sensor_index(Get(msg, "s"))
        active == sensor_state_from_code(Get(msg, "st"))
        label == StateLabel(sensor, active)
    IN  /\ sensor_active' = IF sensor # None
                            THEN [sensor_active EXCEPT ![sensor[1]] = active]
                            ELSE sensor_active
        /\ state_label' = IF label # None THEN label ELSE state_label
        /\ mark_update
        /\ UNCHANGED <<sensor_info, expected_direction, expected_sensor, waiting,
                       last_start_sensor, wait_elapsed_s, wait_timeout_s,
                       finishing_label, finishing_until, last_measurement>>

\* _handle_state(message)
handle_state(msg) ==
    LET sensor == sensor_index(Get(msg, "s"))
        active == sensor_state_from_code(Get(msg, "st"))
        label == StateLabel(sensor, active)
    IN  /\ sensor_active' = IF sensor # None
                            THEN [sensor_active EXCEPT ![sensor[1]] = active]
                            ELSE sensor_active
        /\ state_label' = IF label # None /\ waiting # Some(TRUE) THEN label
                          ELSE state_label
        /\ mark_update
        /\ UNCHANGED <<sensor_info, expected_direction, expected_sensor, waiting,
                       last_start_sensor, wait_elapsed_s, wait_timeout_s,
                       finishing_label, finishing_until, last_measurement>>

\* _handle_start(message)
handle_start(msg) ==
    LET sensor == sensor_index(Get(msg, "s"))
        expected == expected_from_start(sensor)
    IN  /\ last_start_sensor' = sensor
        /\ waiting' = Some(TRUE)
        /\ wait_elapsed_s' = None
        /\ wait_timeout_s' = None
        /\ expected_sensor' = expected[1]
        /\ expected_direction' = expected[2]
        /\ state_label' = Some(StartLabel(sensor))
        /\ mark_update
        /\ UNCHANGED <<sensor_active, sensor_info, finishing_label, finishing_until,
                       last_measurement>>

\* _handle_wait(message); _to_float raises before the lock is taken
handle_wait(msg) ==
    LET start_sensor == sensor_index(Get(msg, "f"))
        elapsed_s == to_float(Get(msg, "el"))
        timeout_s == to_float(Get(msg, "to"))
        expected == expected_from_start(start_sensor)
    IN  /\ last_start_sensor' = start_sensor
        /\ waiting' = Some(TRUE)
        /\ wait_elapsed_s' = elapsed_s
        /\ wait_timeout_s' = timeout_s
        /\ expected_sensor' = expected[1]
        /\ expected_direction' = expected[2]
        /\ state_label' = Some(format_wait_label(expected[1], elapsed_s, timeout_s))
        /\ mark_update
        /\ UNCHANGED <<sensor_active, sensor_info, finishing_label, finishing_until,
                       last_measurement>>

\* the shared assignments without those of lines 248-249: the times of the
\* wait are kept
clear_waiting_keep_times ==
    /\ waiting' = Some(FALSE)
    /\ UNCHANGED <<wait_elapsed_s, wait_timeout_s>>
    /\ expected_sensor' = None
    /\ expected_direction' = None

\* the assignments shared by _handle_finish, _handle_timeout, _handle_reject
\* and _handle_transit
clear_waiting ==
    /\ waiting' = Some(FALSE)
    /\ wait_elapsed_s' = None
    /\ wait_timeout_s' = None
    /\ expected_sensor' = None
    /\ expected_direction' = None

\* _handle_finish(message)
handle_finish(msg) ==
    /\ clear_waiting
    /\ state_label' = Some(FinishLabel(sensor_index(Get(msg, "s"))))
    /\ mark_update
    /\ UNCHANGED <<sensor_active, sensor_info, last_start_sensor, finishing_label,
                   finishing_until, last_measurement>>

\* _handle_timeout(message)
handle_timeout(msg) ==
    /\ clear_waiting
    /\ state_label' = Some(format_timeout_label(to_float(Get(msg, "el"))))
    /\ mark_update
    /\ UNCHANGED <<sensor_active, sensor_info, last_start_sensor, finishing_label,
                   finishing_until, last_measurement>>

\* _handle_reject(message)
handle_reject(msg) ==
    /\ clear_waiting
    /\ state_label' = Some(format_reject_label(to_int(Get(msg, "dt")),
                                               to_int(Get(msg, "min"))))
    /\ mark_update
    /\ UNCHANGED <<sensor_active, sensor_info, last_start_sensor, finishing_label,
                   finishing_until, last_measurement>>

\* _handle_transit(message)
handle_transit(msg) ==
    /\ clear_waiting
    /\ state_label' = None
    /\ set_finishing(Label("Reading complete", <<>>))
    /\ mark_update
    /\ UNCHANGED <<sensor_active, sensor_info, last_start_sensor, last_measurement>>

\* a _handle_sensor_info that stores what it parsed, None included
handle_sensor_info_replace(msg) ==
    LET sensor == sensor_index(Get(msg, "s"))
    IN  /\ sensor_info' = [sensor_info EXCEPT ![sensor[1]] =
              [driver |-> format_version_array(Get(msg, "drv")),
               product |-> format_product_array(Get(msg, "prod")),
               uid |-> to_int(Get(msg, "uid"))]]
        /\ mark_update
        /\ UNCHANGED <<sensor_active, state_label, expected_direction, expected_sensor,
                       waiting, last_start_sensor, wait_elapsed_s, wait_timeout_s,
                       finishing_label, finishing_until, last_measurement>>

\* _handle_sensor_info(message), for a valid sensor index: the merge
handle_sensor_info(msg) ==
    LET sensor == sensor_index(Get(msg, "s"))
        driver == format_version_array(Get(msg, "drv"))
        product == format_product_array(Get(msg, "prod"))
        uid == to_int(Get(msg, "uid"))
        info == sensor_info[sensor[1]]
    IN  /\ sensor_info' = [sensor_info EXCEPT ![sensor[1]] =
              [driver |-> IF driver # None THEN driver ELSE info.driver,
               product |-> IF product # None THEN product ELSE info.product,
               uid |-> IF uid # None THEN uid ELSE info.uid]]
        /\ mark_update
        /\ UNCHANGED <<sensor_active, state_label, expected_direction, expected_sensor,
                       waiting, last_start_sensor, wait_elapsed_s, wait_timeout_s,
                       finishing_label, finishing_until, last_measurement>>

(***************************************************************************)
(* The router: SerialReader._handle_message and                            *)
(* SensorStateStore.handle_packet, one action per route.  A message is     *)
(* taken when the worker is between messages (worker = "idle").  An        *)
(* exception a handler lets escape propagates out of _handle_message into  *)
(* run(), which does not catch it: the worker thread ends ("raised").      *)
(***************************************************************************)
IsDict(msg) == msg.ty = "dict"

\* packet_type = message.get("t")
PacketType(msg) == Get(msg, "t")

\* the keys of the handler table in handle_packet
HandlerKeys == {"state", "start", "finish", "wait", "timeout", "reject", "transit", "sensor"}

\* handle_packet is reached: a dict whose tag is neither "version" nor "cfg"
ToStore(msg) ==
    /\ IsDict(msg)
    /\ PacketType(msg) # PyStr("version")
    /\ PacketType(msg) # PyStr("cfg")

\* handle_packet dispatches to the handler registered under name
Routed(msg, name) ==
    /\ ToStore(msg)
    /\ Truthy(PacketType(msg))
    /\ Hashable(PacketType(msg))
    /\ PacketType(msg) = PyStr(name)

Done == UNCHANGED <<worker, message, measurement, transit_at, readerVars>>

\* the worker thread dies with the exception msg raised; nothing was written
Raise(msg) ==
    /\ worker' = "raised"
    /\ message' = msg
    /\ UNCHANGED <<storeVars, otherStores, measurement, transit_at, readerVars>>

\* lines 399-400, and handle_packet's two silent returns (lines 131-132, 143)
Ignored(msg) ==
    \/ ~IsDict(msg)
    \/ ToStore(msg) /\ ~Truthy(PacketType(msg))
    \/ /\ ToStore(msg)
       /\ Truthy(PacketType(msg))
       /\ Hashable(PacketType(msg))
       /\ \A name \in HandlerKeys : PacketType(msg) # PyStr(name)

\* _handle_message returns without writing anything
Ignore(msg) ==
    /\ worker = "idle"
    /\ Ignored(msg)
    /\ UNCHANGED <<now, storeVars, otherStores>>
    /\ Done
    /\ UNCHANGED <<event_at, after_transit, arrived>>

\* handle_packet line 142: the table lookup hashes the tag; a list or a dict
\* raises TypeError
UnhashableTag(msg) ==
    /\ worker = "idle"
    /\ ToStore(msg)
    /\ Truthy(PacketType(msg))
    /\ ~Hashable(PacketType(msg))
    /\ Raise(msg)
    /\ UNCHANGED now
    /\ UNCHANGED <<event_at, after_transit, arrived>>

\* lines 402-406 and DeviceInfoStore.update_version
Version(msg) ==
    /\ worker = "idle"
    /\ IsDict(msg)
    /\ PacketType(msg) = PyStr("version")
    /\ device_info' = IF Get(msg, "v").ty = "str"
                      THEN [version |-> Some(Get(msg, "v").s),
                            version_iso |-> Some(StrfTime(now))]
                      ELSE device_info
    /\ UNCHANGED <<now, storeVars, measurements, config_store>>
    /\ Done
    /\ UNCHANGED <<event_at, after_transit, arrived>>

\* ConfigStore.update(distance_mm, look_mm, timeout_s)
ConfigUpdate(distance_mm, look_mm, timeout_s) ==
    IF distance_mm = None /\ look_mm = None /\ timeout_s = None THEN config_store
    ELSE [distance_mm |-> IF distance_mm # None THEN distance_mm
                          ELSE config_store.distance_mm,
          look_mm |-> IF look_mm # None THEN look_mm ELSE config_store.look_mm,
          timeout_s |-> IF timeout_s # None THEN timeout_s ELSE config_store.timeout_s,
          received_iso |-> Some(StrfTime(now))]

\* lines 407-414
Cfg(msg) ==
    /\ worker = "idle"
    /\ IsDict(msg)
    /\ PacketType(msg) = PyStr("cfg")
    /\ LET r == to_int(Get(msg, "r"))
           look_mm == IF r = None THEN to_int(Get(msg, "h")) ELSE r
       IN  config_store' = ConfigUpdate(to_int(Get(msg, "d")), look_mm,
                                        to_int(Get(msg, "to")))
    /\ UNCHANGED <<now, storeVars, measurements, device_info>>
    /\ Done
    /\ UNCHANGED <<event_at, after_transit, arrived>>

State(msg) ==
    /\ worker = "idle"
    /\ Routed(msg, "state")
    /\ handle_state(msg)
    /\ UNCHANGED <<now, otherStores>>
    /\ Done
    /\ event_at' = Some(now)
    /\ after_transit' = FALSE
    /\ UNCHANGED arrived

Start(msg) ==
    /\ worker = "idle"
    /\ Routed(msg, "start")
    /\ handle_start(msg)
    /\ UNCHANGED <<now, otherStores>>
    /\ Done
    /\ event_at' = Some(now)
    /\ after_transit' = FALSE
    /\ UNCHANGED arrived

Wait(msg) ==
    /\ worker = "idle"
    /\ Routed(msg, "wait")
    /\ IF ToFloatRaises(Get(msg, "el")) \/ ToFloatRaises(Get(msg, "to"))
       THEN Raise(msg)
       ELSE handle_wait(msg) /\ UNCHANGED otherStores /\ Done
    /\ UNCHANGED now
    /\ event_at' = Some(now)
    /\ after_transit' = FALSE
    /\ UNCHANGED arrived

Finish(msg) ==
    /\ worker = "idle"
    /\ Routed(msg, "finish")
    /\ handle_finish(msg)
    /\ UNCHANGED <<now, otherStores>>
    /\ Done
    /\ event_at' = Some(now)
    /\ after_transit' = FALSE
    /\ UNCHANGED arrived

Timeout(msg) ==
    /\ worker = "idle"
    /\ Routed(msg, "timeout")
    /\ IF ToFloatRaises(Get(msg, "el"))
       THEN Raise(msg)
       ELSE handle_timeout(msg) /\ UNCHANGED otherStores /\ Done
    /\ UNCHANGED now
    /\ event_at' = Some(now)
    /\ after_transit' = FALSE
    /\ UNCHANGED arrived

Reject(msg) ==
    /\ worker = "idle"
    /\ Routed(msg, "reject")
    /\ IF RejectLabelRaises(to_int(Get(msg, "dt")), to_int(Get(msg, "min")))
       THEN Raise(msg)
       ELSE handle_reject(msg) /\ UNCHANGED otherStores /\ Done
    /\ UNCHANGED now
    /\ event_at' = Some(now)
    /\ after_transit' = FALSE
    /\ UNCHANGED arrived

\* _handle_sensor_info: line 294 returns before anything is written, the
\* timestamp included
Sensor(msg) ==
    /\ worker = "idle"
    /\ Routed(msg, "sensor")
    /\ IF sensor_index(Get(msg, "s")) = None
       THEN UNCHANGED <<storeVars, otherStores>> /\ Done
       ELSE IF \/ VersionArrayRaises(Get(msg, "drv"))
               \/ ProductArrayRaises(Get(msg, "prod"))
       THEN Raise(msg)
       ELSE handle_sensor_info(msg) /\ UNCHANGED otherStores /\ Done
    /\ UNCHANGED now
    /\ event_at' = Some(now)
    /\ after_transit' = FALSE
    /\ UNCHANGED arrived

(***************************************************************************)
(* A transit message takes three critical sections: handle_packet under    *)
(* the state lock, MeasurementStore.add under the measurement lock,        *)
(* update_measurement under the state lock again.  Readers may run         *)
(* between them.                                                           *)
(***************************************************************************)
\* line 415 for a transit message: handle_packet -> _handle_transit
Transit(msg, cap) ==
    /\ worker = "idle"
    /\ Routed(msg, "transit")
    /\ Len(measurements) < cap
    /\ handle_transit(msg)
    /\ worker' = "add"
    /\ message' = msg
    /\ transit_at' = Some(now)
    /\ UNCHANGED <<now, otherStores, measurement, readerVars>>
    /\ event_at' = Some(now)
    /\ after_transit' = TRUE
    /\ arrived' = Append(arrived, msg)

\* Measurement(...) of lines 423-435
Measurement(msg) ==
    LET mph == to_float(Get(msg, "mph"))
        err == to_float(Get(msg, "err"))
        band == calc_err_band(mph, err)
    IN  [received_at |-> now,
         received_iso |-> StrfTime(now),
         ts_us |-> to_int(Get(msg, "ts")),
         start_sensor |-> to_int(Get(msg, "f")),
         end_sensor |-> to_int(Get(msg, "to")),
         dt_us |-> to_int(Get(msg, "dt")),
         mph |-> mph,
         err |-> err,
         err_low |-> band[1],
         err_high |-> band[2],
         ok |-> Get(msg, "ok")]

\* deque(maxlen=maxlen).append(m)
Append_maxlen(deque, m) ==
    IF Len(deque) >= maxlen THEN Append(Tail(deque), m) ELSE Append(deque, m)

\* lines 419-437: build the Measurement, MeasurementStore.add
Add ==
    /\ worker = "add"
    /\ IF ToFloatRaises(Get(message, "mph")) \/ ToFloatRaises(Get(message, "err"))
       THEN /\ worker' = "raised"
            /\ UNCHANGED <<measurements, measurement>>
       ELSE /\ measurement' = Some(Measurement(message))
            /\ measurements' = Append_maxlen(measurements, Measurement(message))
            /\ worker' = "update"
    /\ UNCHANGED <<now, storeVars, device_info, config_store, message, transit_at>>
    /\ UNCHANGED <<event_at, after_transit, arrived, readerVars>>

\* line 438: SensorStateStore.update_measurement
update_measurement ==
    /\ worker = "update"
    /\ last_measurement' = measurement
    /\ worker' = "idle"
    /\ message' = PyNone
    /\ measurement' = None
    /\ UNCHANGED <<now, sensor_active, sensor_info, state_label, expected_direction,
                   expected_sensor, waiting, last_start_sensor, wait_elapsed_s,
                   wait_timeout_s, finishing_label, finishing_until, received_at,
                   received_iso, otherStores, transit_at>>
    /\ UNCHANGED <<event_at, after_transit, arrived, readerVars>>

\* MeasurementStore.recent(): newest first
recent == [i \in 1..Len(measurements) |-> measurements[Len(measurements) + 1 - i]]

\* time passes
Tick(limit) ==
    /\ now < limit
    /\ now' = now + 1
    /\ UNCHANGED <<storeVars, otherStores, worker, message, measurement, transit_at,
                   event_at, after_transit, arrived, readerVars>>

(***************************************************************************)
(* SensorStateStore.snapshot(), read at the current state and time.  It    *)
(* runs under the state lock, as every handler's writes do, so it sees     *)
(* the store between two actions.                                          *)
(***************************************************************************)
\* lines 161-164
finishing == finishing_until # None /\ now < finishing_until[1]

\* lines 165-170: "x or y" takes y when x is None
snapshot_state ==
    LET chosen == IF finishing
                  THEN (IF finishing_label # None THEN finishing_label ELSE state_label)
                  ELSE state_label
    IN  IF chosen = None
        THEN derive_state_label(sensor_active[0], sensor_active[1])
        ELSE chosen

\* "self._sensor_info.get(i) or None": an empty dict reads as None
InfoOrNone(info) ==
    IF info.driver = None /\ info.product = None /\ info.uid = None THEN None
    ELSE Some(info)

\* a snapshot that reports the stored expected fields and waiting flag during
\* the hold
snapshot_unforced ==
    [sensor_1_active |-> sensor_active[0],
     sensor_2_active |-> sensor_active[1],
     state |-> snapshot_state,
     expected_direction |-> expected_direction,
     expected_sensor |-> expected_sensor,
     waiting |-> waiting,
     finishing |-> finishing,
     state_received_iso |-> received_iso,
     wait_elapsed_s |-> wait_elapsed_s,
     wait_timeout_s |-> wait_timeout_s,
     sensor_1_info |-> InfoOrNone(sensor_info[0]),
     sensor_2_info |-> InfoOrNone(sensor_info[1]),
     last_measurement |-> last_measurement,
     last_measurement_age_s |-> IF last_measurement = None THEN None
                                ELSE Some(now - last_measurement[1].received_at)]

\* the dict of lines 176-191
snapshot ==
    [sensor_1_active |-> sensor_active[0],
     sensor_2_active |-> sensor_active[1],
     state |-> snapshot_state,
     expected_direction |-> IF finishing THEN None ELSE expected_direction,
     expected_sensor |-> IF finishing THEN None ELSE expected_sensor,
     waiting |-> IF finishing THEN Some(FALSE) ELSE waiting,
     finishing |-> finishing,
     state_received_iso |-> received_iso,
     wait_elapsed_s |-> wait_elapsed_s,
     wait_timeout_s |-> wait_timeout_s,
     sensor_1_info |-> InfoOrNone(sensor_info[0]),
     sensor_2_info |-> InfoOrNone(sensor_info[1]),
     last_measurement |-> last_measurement,
     last_measurement_age_s |-> IF last_measurement = None THEN None
                                ELSE Some(now - last_measurement[1].received_at)]

(***************************************************************************)
(* The messages the device is taken to send, and the specification of the  *)
(* router and the stores.                                                  *)
(***************************************************************************)
MaxTime == 4

MaxTransits == 2

\* a dict {"t": tag, k1: v1, ...}
Packet(tag, fields) == PyDict(<< <<"t", PyStr(tag)>> >> \o fields)

StateMessages ==
    { Packet("state", << <<"s", PyInt(0)>>, <<"st", PyStr("blk")>> >>),
      Packet("state", << <<"s", PyFloat(2)>>, <<"st", PyStr("clr")>> >>),
      Packet("state", << <<"s", PyInt(2)>>, <<"st", PyStr("blk")>> >>) }

StartMessages ==
    { Packet("start", << <<"s", s>> >>) : s \in {PyInt(0), PyFloat(2), PyBool(FALSE)} }

WaitMessages ==
    { Packet("wait", << <<"f", PyInt(0)>>, <<"el", PyFloat(3)>>, <<"to", PyInt(5)>> >>),
      Packet("wait", << <<"f", PyInt(1)>>, <<"el", PyFloat(3)>> >>),
      Packet("wait", << <<"f", PyInt(3)>>, <<"to", PyInt(5)>> >>) }

FinishMessages ==
    { Packet("finish", << <<"s", PyInt(1)>> >>) }

TimeoutMessages ==
    { Packet("timeout", << <<"el", PyFloat(3)>> >>) }

RejectMessages ==
    { Packet("reject", << <<"dt", PyInt(1500)>>, <<"min", PyInt(2000)>> >>) }

TransitMessage(f, to, mph) ==
    Packet("transit", << <<"ts", PyInt(100)>>, <<"f", f>>, <<"to", to>>,
                         <<"dt", PyInt(1500)>>, <<"mph", mph>>, <<"err", PyInt(2)>>,
                         <<"ok", PyBool(TRUE)>> >>)

\* the events of the transit state machine, with well-formed and malformed fields
Messages ==
    StateMessages \cup StartMessages \cup WaitMessages \cup FinishMessages
    \cup TimeoutMessages \cup RejectMessages
    \cup {TransitMessage(PyInt(0), PyInt(1), PyInt(30))}

\* the worker handles one message, or one step of a transit message
Events(msgs, cap) ==
    \/ Add
    \/ update_measurement
    \/ \E msg \in msgs :
          \/ State(msg)
          \/ Start(msg)
          \/ Wait(msg)
          \/ Finish(msg)
          \/ Timeout(msg)
          \/ Reject(msg)
          \/ Transit(msg, cap)

Next == Tick(MaxTime) \/ Events(Messages, MaxTransits)

vars == <<routerVars, readerVars>>

\* the module's globals and a SerialReader just constructed
Init == InitRouter /\ InitReader

Spec == Init /\ [][Next]_vars

(***************************************************************************)
(* SpecRouter: every route of _handle_message, fed one message of each     *)
(* type, messages with unknown, missing and non-string tags, values that   *)
(* are not maps, and transit messages with invalid sensor ids.             *)
(***************************************************************************)
MaxRouterTime == 1

MaxRouterTransits == 1

\* well-formed and malformed messages of the ten known types
KnownMessages ==
    { Packet("state", << <<"s", PyInt(0)>>, <<"st", PyStr("blk")>> >>),
      Packet("state", << <<"st", PyStr("clr")>> >>),
      Packet("start", << <<"s", PyInt(0)>> >>),
      Packet("wait", << <<"f", PyStr("1")>>, <<"el", PyFloat(3)>> >>),
      Packet("finish", << <<"s", PyInt(7)>> >>),
      Packet("timeout", <<>>),
      Packet("reject", << <<"dt", PyInt(1500)>> >>),
      Packet("sensor", << <<"s", PyInt(0)>>, <<"uid", PyInt(7)>> >>),
      Packet("sensor", << <<"s", PyInt(2)>>, <<"uid", PyInt(7)>> >>),
      Packet("sensor", << <<"uid", PyInt(9)>> >>),
      Packet("version", << <<"v", PyStr("1.0")>> >>),
      Packet("version", << <<"v", PyInt(1)>> >>),
      Packet("cfg", << <<"d", PyInt(100)>>, <<"h", PyInt(20)>> >>),
      Packet("cfg", <<>>),
      TransitMessage(PyInt(0), PyInt(1), PyInt(30)) }

\* dicts whose tag is unknown, missing, or not a string
UnknownTagMessages ==
    { Packet("bogus", << <<"s", PyInt(0)>> >>),
      Packet("", <<>>),
      PyDict(<< <<"s", PyInt(0)>>, <<"st", PyStr("blk")>> >>),
      PyDict(<< <<"t", PyInt(7)>> >>),
      PyDict(<< <<"t", PyInt(0)>> >>),
      PyDict(<< <<"t", PyBool(TRUE)>> >>),
      PyDict(<< <<"t", PyFloat(3)>> >>),
      PyDict(<< <<"t", PyList(<<>>)>> >>),
      PyDict(<< <<"t", PyList(<<PyStr("state")>>)>> >>),
      PyDict(<< <<"t", PyDict(<< <<"t", PyStr("state")>> >>)>> >>) }

\* decoded values that are not maps
NonDictMessages ==
    { PyInt(0), PyStr("state"), PyNone, PyList(<<PyStr("t"), PyStr("state")>>) }

RouterMessages == KnownMessages \cup UnknownTagMessages \cup NonDictMessages

\* the routes that leave the transit state machine alone, or end the worker
Routes(msgs) ==
    \E msg \in msgs :
       \/ Ignore(msg)
       \/ UnhashableTag(msg)
       \/ Version(msg)
       \/ Cfg(msg)
       \/ Sensor(msg)

NextRouter ==
    \/ Tick(MaxRouterTime)
    \/ Events(RouterMessages, MaxRouterTransits)
    \/ Routes(RouterMessages)

SpecRouter == Init /\ [][NextRouter]_vars

(***************************************************************************)
(* SpecTransit: transit messages only, with valid and invalid sensor ids.  *)
(***************************************************************************)
MaxTransitTime == 1

MaxRecords == 2

\* transit messages whose f and to are valid, other integers, an integral
\* float out of range, a non-integral float, a boolean, a string, missing
TransitMessages ==
    { TransitMessage(PyInt(0), PyInt(1), PyInt(30)),
      TransitMessage(PyFloat(2), PyFloat(0), PyNone),
      TransitMessage(PyInt(5), PyFloat(14), PyInt(30)),
      TransitMessage(PyFloat(1), PyBool(TRUE), PyNone),
      TransitMessage(PyStr("0"), PyNone, PyInt(30)) }

NextTransit ==
    \/ Tick(MaxTransitTime)
    \/ Add
    \/ update_measurement
    \/ \E msg \in TransitMessages : Transit(msg, MaxRecords)

SpecTransit == Init /\ [][NextTransit]_vars

(***************************************************************************)
(* SpecState: state events for both sensors with every code, well-formed   *)
(* or not, a start that sets the waiting flag, a finish that clears it,    *)
(* and a transit, over the length of one hold.                             *)
(***************************************************************************)
MaxStateTime == 3

MaxStateTransits == 1

\* the "st" field: the two codes, a code the device does not define, a number
StateCodes == {PyStr("blk"), PyStr("clr"), PyStr("xyz"), PyInt(1)}

\* state events for a valid sensor, and one whose code is missing
StateEventMessages ==
    { Packet("state", << <<"s", PyInt(s)>>, <<"st", st>> >>) : s \in {0, 1}, st \in StateCodes }
    \cup { Packet("state", << <<"s", PyInt(1)>> >>) }

StateSpecMessages ==
    StateEventMessages
    \cup { Packet("start", << <<"s", PyInt(0)>> >>),
           Packet("finish", << <<"s", PyInt(1)>> >>),
           TransitMessage(PyInt(0), PyInt(1), PyInt(30)) }

NextState ==
    \/ Tick(MaxStateTime)
    \/ Add
    \/ update_measurement
    \/ \E msg \in StateSpecMessages :
          \/ State(msg)
          \/ Start(msg)
          \/ Finish(msg)
          \/ Transit(msg, MaxStateTransits)

SpecState == Init /\ [][NextState]_vars

(***************************************************************************)
(* SpecRecent: more transit messages than the deque holds, other messages  *)
(* in between.  The device stamps the k-th transit with ts = k, so every   *)
(* record is told from the others; a transit may carry a speed beyond the  *)
(* range of a float.                                                       *)
(***************************************************************************)
MaxArrivals == 11

MaxRecentTime == 1

\* a transit message with device timestamp ts and speed mph
TransitAt(ts, mph) ==
    Packet("transit", << <<"ts", PyInt(ts)>>, <<"f", PyInt(0)>>, <<"to", PyInt(1)>>,
                         <<"dt", PyInt(1500)>>, <<"mph", mph>>, <<"err", PyInt(2)>>,
                         <<"ok", PyBool(TRUE)>> >>)

\* the next transit message of the device
NextTransits ==
    { TransitAt(Len(arrived) + 1, mph) : mph \in {PyInt(30), PyInt(BigInt)} }

\* messages of other types
OtherMessages ==
    { Packet("state", << <<"s", PyInt(0)>>, <<"st", PyStr("blk")>> >>),
      Packet("finish", << <<"s", PyInt(1)>> >>),
      Packet("version", << <<"v", PyStr("1.0")>> >>) }

NextRecent ==
    \/ Tick(MaxRecentTime)
    \/ Add
    \/ update_measurement
    \/ \E msg \in NextTransits : Len(arrived) < MaxArrivals /\ Transit(msg, maxlen + 1)
    \/ \E msg \in OtherMessages :
          \/ State(msg)
          \/ Finish(msg)
          \/ Version(msg)

SpecRecent == Init /\ [][NextRecent]_vars

(***************************************************************************)
(* Properties of the transit state machine (Spec).                         *)
(***************************************************************************)
\* C1: with T the time the last transit event was handled, a snapshot read at
\* time now reports finishing = true exactly when T <= now < T + 3.  The clock
\* only advances in Tick, which writes nothing to the store: the flag changes
\* with the read time alone.
C1_FinishingWindow ==
    transit_at # None =>
        (snapshot.finishing <=> (transit_at[1] <= now /\ now < transit_at[1] + 3))

\* C1 witness: the hold of a transit handled at time 1 has expired at time 4,
\* after a later event of another type.
C1_Witness ==
    /\ transit_at = Some(1)
    /\ now = 4
    /\ ~snapshot.finishing
    /\ received_at # None
    /\ received_at[1] > 1

\* C2: a snapshot that reports finishing reports the label "Reading complete",
\* no expected direction, no expected sensor and waiting = false, whatever has
\* been stored since the transit event.
C2_FinishingOverrides ==
    snapshot.finishing =>
        /\ snapshot.state = Some(Label("Reading complete", <<>>))
        /\ snapshot.expected_direction = None
        /\ snapshot.expected_sensor = None
        /\ snapshot.waiting = Some(FALSE)

\* C2 witness: during the hold a wait event has stored waiting = true, an
\* expected sensor and its own label.
C2_Witness ==
    /\ snapshot.finishing
    /\ waiting = Some(TRUE)
    /\ expected_sensor = Some(1)
    /\ expected_direction = Some("0->1")
    /\ state_label # None
    /\ sensor_active[0] = Some(TRUE)

\* the sensor id a start or wait message carries is s: the int s or the float s.0
CarriesSensor(msg, s) ==
    \/ PacketType(msg) = PyStr("start") /\ Get(msg, "s") \in {PyInt(s), PyFloat(2 * s)}
    \/ PacketType(msg) = PyStr("wait") /\ Get(msg, "f") \in {PyInt(s), PyFloat(2 * s)}

\* the stored expected direction is the one that belongs to the stored
\* expected sensor
DirectionMatchesSensor ==
    /\ expected_direction = Some("0->1") <=> expected_sensor = Some(1)
    /\ expected_direction = Some("1->0") <=> expected_sensor = Some(0)
    /\ expected_direction = None <=> expected_sensor = None

AllStores == <<storeVars, otherStores>>

\* the message is a map with an unknown, missing or non-string tag, or is no map
UnknownOrNoMap(msg) ==
    \/ ~IsDict(msg)
    \/ \A name \in HandlerKeys \cup {"version", "cfg"} : PacketType(msg) # PyStr(name)

\* C7: a message with an unknown, missing or non-string tag, and a value that
\* is not a map, is ignored: handling it raises nothing, changes no store, and
\* leaves the worker ready for the next message.
C7_UnknownIgnored ==
    [][\A msg \in RouterMessages :
         (UnknownOrNoMap(msg) /\ (Ignore(msg) \/ UnhashableTag(msg)))
             => (worker' = "idle" /\ UNCHANGED AllStores)]_vars

\* C8: each of the eight state-machine events sets the last-updated timestamp
\* to the time it is handled, whatever its fields hold: the timestamp is always
\* the time of the last such event.
C8_TimestampAlways ==
    event_at # None =>
        /\ received_at = event_at
        /\ received_iso = Some(StrfTime(event_at[1]))

\* a stored sensor id is 0, 1 or absent
SensorIdOrAbsent(id) == id \in {None, Some(0), Some(1)}

\* C9: in every stored TransitRecord, in the measurement list and as
\* last_measurement, start_sensor and end_sensor are 0, 1 or absent.
C9_RecordSensorIds ==
    /\ \A i \in 1..Len(measurements) :
          /\ SensorIdOrAbsent(measurements[i].start_sensor)
          /\ SensorIdOrAbsent(measurements[i].end_sensor)
    /\ last_measurement # None =>
          /\ SensorIdOrAbsent(last_measurement[1].start_sensor)
          /\ SensorIdOrAbsent(last_measurement[1].end_sensor)

(***************************************************************************)
(* cbor2.CBORDecoder(stream).decode() on the bytes of the buffer.  The     *)
(* result is "ok" with the value and the position after it (stream.tell()),*)
(* "eof" (CBORDecodeEOF: the buffer ends inside the item) or "error"       *)
(* (any other CBORDecodeError).  Bytes are numbers 0..255.  The subset of  *)
(* RFC 8949 decoded here: small and one-byte integers, text strings,       *)
(* arrays and maps of definite length below 24, false, true, null; the     *)
(* reserved additional-information values 28..30 are malformed.  Streams   *)
(* of the model hold no other initial byte.                                *)
(***************************************************************************)
DecodeOk(next, value) == [kind |-> "ok", next |-> next, value |-> value]

DecodeEOF == [kind |-> "eof", next |-> 0, value |-> PyNone]

DecodeError == [kind |-> "error", next |-> 0, value |-> PyNone]

\* the strings that cross the serial line in the model
WireStrings == {"", "t", "s", "d", "getv", "getc", "cfg"}

\* str.encode("utf-8") of those strings
BytesOf(str) ==
    CASE str = "" -> <<>>
      [] str = "t" -> <<116>>
      [] str = "s" -> <<115>>
      [] str = "d" -> <<100>>
      [] str = "getv" -> <<103, 101, 116, 118>>
      [] str = "getc" -> <<103, 101, 116, 99>>
      [] str = "cfg" -> <<99, 102, 103>>

\* bytes.decode("utf-8"); "?" stands for every string not in WireStrings
StrOf(chars) ==
    IF \E str \in WireStrings : BytesOf(str) = chars
    THEN CHOOSE str \in WireStrings : BytesOf(str) = chars
    ELSE "?"

\* a byte sequence is valid UTF-8 (single-byte characters only)
ValidUtf8(chars) == \A k \in 1..Len(chars) : chars[k] < 128

\* a decoded map key as the key of the model's dict (string keys only are sent)
KeyOf(value) == IF value.ty = "str" THEN value.s ELSE "?"

RECURSIVE DecodeItem(_, _)
RECURSIVE DecodeItems(_, _, _)
\* n items decoded in sequence from position i: stops at the first that fails
DecodeItems(buf, i, n) ==
    IF n = 0 THEN DecodeOk(i, <<>>)
    ELSE LET first == DecodeItem(buf, i)
         IN  IF first.kind # "ok" THEN first
             ELSE LET rest == DecodeItems(buf, first.next, n - 1)
                  IN  IF rest.kind # "ok" THEN rest
                      ELSE DecodeOk(rest.next, <<first.value>> \o rest.value)

\* one data item decoded from position i of buf
DecodeItem(buf, i) ==
    IF i > Len(buf) THEN DecodeEOF
    ELSE LET major == buf[i] \div 32
             info == buf[i] % 32
         IN  IF info \in 28..30 THEN DecodeError
             ELSE IF major \in {0, 1} /\ info < 24
             THEN DecodeOk(i + 1, PyInt(IF major = 0 THEN info ELSE -1 - info))
             ELSE IF major \in {0, 1} /\ info = 24
             THEN IF i + 1 > Len(buf) THEN DecodeEOF
                  ELSE DecodeOk(i + 2, PyInt(IF major = 0 THEN buf[i + 1]
                                             ELSE -1 - buf[i + 1]))
             ELSE IF major = 3 /\ info < 24
             THEN IF i + info > Len(buf) THEN DecodeEOF
                  ELSE IF ~ValidUtf8(SubSeq(buf, i + 1, i + info)) THEN DecodeError
                  ELSE DecodeOk(i + 1 + info, PyStr(StrOf(SubSeq(buf, i + 1, i + info))))
             ELSE IF major = 4 /\ info < 24
             THEN LET items == DecodeItems(buf, i + 1, info)
                  IN  IF items.kind # "ok" THEN items
                      ELSE DecodeOk(items.next, PyList(items.value))
             ELSE IF major = 5 /\ info < 24
             THEN LET items == DecodeItems(buf, i + 1, 2 * info)
                  IN  IF items.kind # "ok" THEN items
                      ELSE DecodeOk(items.next,
                               PyDict([k \in 1..info |->
                                   <<KeyOf(items.value[2 * k - 1]), items.value[2 * k]>>]))
             ELSE IF major = 7 /\ info \in {20, 21}
             THEN DecodeOk(i + 1, PyBool(info = 21))
             ELSE IF major = 7 /\ info = 22
             THEN DecodeOk(i + 1, PyNone)
             ELSE DecodeError

\* decoder.decode() at the head of the buffer, and stream.tell() after it
decode(buf) ==
    LET item == DecodeItem(buf, 1)
    IN  [kind |-> item.kind,
         consumed |-> IF item.kind = "ok" THEN item.next - 1 ELSE 0,
         value |-> item.value]

(***************************************************************************)
(* cbor2.dumps(value) for the values the program sends: maps with string   *)
(* keys whose values are strings and integers.  An "object" is any Python  *)
(* value cbor2 has no encoder for: dumps raises CBOREncodeTypeError, a     *)
(* TypeError.                                                              *)
(***************************************************************************)
\* the initial byte of major type major and the argument n that follows it
EncodeHead(major, n) ==
    IF n < 24 THEN <<major * 32 + n>>
    ELSE IF n < 256 THEN <<major * 32 + 24, n>>
    ELSE <<major * 32 + 25, n \div 256, n % 256>>

RECURSIVE Encodable(_)
Encodable(value) ==
    CASE value.ty = "object" -> FALSE
      [] value.ty = "list" -> \A k \in 1..Len(value.l) : Encodable(value.l[k])
      [] value.ty = "dict" -> \A k \in 1..Len(value.m) : Encodable(value.m[k][2])
      [] OTHER -> TRUE

RECURSIVE dumps(_)
RECURSIVE dumps_all(_)
\* the encodings of a sequence of values, one after the other
dumps_all(values) ==
    IF values = <<>> THEN <<>> ELSE dumps(Head(values)) \o dumps_all(Tail(values))

dumps(value) ==
    CASE value.ty = "int" ->
             IF value.n >= 0 THEN EncodeHead(0, value.n) ELSE EncodeHead(1, 0 - 1 - value.n)
      [] value.ty = "str" -> EncodeHead(3, Len(BytesOf(value.s))) \o BytesOf(value.s)
      [] value.ty = "list" -> EncodeHead(4, Len(value.l)) \o dumps_all(value.l)
      [] value.ty = "dict" ->
             EncodeHead(5, Len(value.m))
             \o dumps_all([k \in 1..(2 * Len(value.m)) |->
                              IF k % 2 = 1 THEN PyStr(value.m[(k + 1) \div 2][1])
                              ELSE value.m[k \div 2][2]])
      [] value.ty = "bool" -> IF value.n = 1 THEN <<245>> ELSE <<244>>
      [] value.ty = "none" -> <<246>>

\* line 345
Getv == PyDict(<< <<"t", PyStr("getv")>> >>)

\* line 490
Getc == PyDict(<< <<"t", PyStr("getc")>> >>)

\* lines 506-512, with a distance
CfgCommand == PyDict(<< <<"t", PyStr("cfg")>>, <<"d", PyInt(100)>> >>)

\* a payload cbor2 cannot encode
Unencodable == PyDict(<< <<"t", PyVal("object", 0, "", <<>>, <<>>)>> >>)

GetvBytes == dumps(Getv)

(***************************************************************************)
(* SerialReader.run(): the read loop (lines 348-377).  One action per      *)
(* blocking call or loop iteration.  The device's output is the            *)
(* concatenation of units; pos bytes of it have been read.                 *)
(***************************************************************************)
RECURSIVE Flatten(_)
\* the bytes of a sequence of byte sequences
Flatten(seqs) == IF seqs = <<>> THEN <<>> ELSE Head(seqs) \o Flatten(Tail(seqs))

\* the bytes the device sends
stream == Flatten(units)

\* an EOF branch that drops the incomplete bytes
on_decode_eof_clear(buf) == <<>>

\* lines 364-365: CBORDecodeEOF breaks out of the inner loop; the buffer stays
on_decode_eof(buf) == buf

\* an error branch that drops only the first byte of the buffer
on_decode_error_skip(buf) == Tail(buf)

\* lines 366-369: any other CBORDecodeError clears the buffer, then breaks
on_decode_error(buf) == <<>>

RECURSIVE DecodeAll(_)
\* lines 361-377 run on one buffer: the messages the inner loop passes to
\* _handle_message before it breaks
DecodeAll(buf) ==
    IF buf = <<>> THEN <<>>
    ELSE LET r == decode(buf)
         IN  IF r.kind # "ok" \/ r.consumed <= 0 THEN <<>>
             ELSE <<r.value>> \o DecodeAll(SubSeq(buf, r.consumed + 1, Len(buf)))

ReaderIdle == UNCHANGED <<serial, stop_event, write_lock, send_pc, payload, sent, flushed,
                          stop_pc, units, wire>>

\* a loop head that does not look at the stop flag: while True
LoopCheck_deaf ==
    /\ run_pc = "loop"
    /\ run_pc' = "read"
    /\ UNCHANGED <<buffer, pos, dispatched, err_pos, err_dispatched, routerVars>>
    /\ ReaderIdle

\* line 348: while not self._stop_event.is_set()
LoopCheck ==
    /\ run_pc = "loop"
    /\ run_pc' = IF stop_event THEN "stopped" ELSE "read"
    /\ UNCHANGED <<buffer, pos, dispatched, err_pos, err_dispatched, routerVars>>
    /\ ReaderIdle

\* lines 349-350, 359: read returns the next k bytes; buffer.extend(chunk)
ReadChunk(k) ==
    /\ run_pc = "read"
    /\ serial = "open"
    /\ k \in 1..(Len(stream) - pos)
    /\ buffer' = buffer \o SubSeq(stream, pos + 1, pos + k)
    /\ pos' = pos + k
    /\ run_pc' = "decode"
    /\ UNCHANGED <<dispatched, err_pos, err_dispatched, routerVars>>
    /\ ReaderIdle

\* lines 356-357: the read timed out with nothing to return
ReadEmpty ==
    /\ run_pc = "read"
    /\ serial = "open"
    /\ run_pc' = "loop"
    /\ UNCHANGED <<buffer, pos, dispatched, err_pos, err_dispatched, routerVars>>
    /\ ReaderIdle

\* a read loop that asks for the version again after a read error
ReadError_reconnect ==
    /\ run_pc = "read"
    /\ run_pc' = "getv"
    /\ send_pc' = [send_pc EXCEPT ![Worker] = "call"]
    /\ sent' = [sent EXCEPT ![Worker] = 0]
    /\ UNCHANGED <<serial, stop_event, write_lock, payload, flushed, stop_pc, units, wire,
                   buffer, pos, dispatched, err_pos, err_dispatched, routerVars>>

\* lines 351-354: the read raised SerialException (always, on a closed port)
ReadError ==
    /\ run_pc = "read"
    /\ run_pc' = "loop"
    /\ UNCHANGED <<buffer, pos, dispatched, err_pos, err_dispatched, routerVars>>
    /\ ReaderIdle

\* lines 361-377: one iteration of the inner loop.  The messages of the
\* model's streams are all of the kind _handle_message ignores.
DecodeStep ==
    /\ run_pc = "decode"
    /\ LET r == decode(buffer)
       IN  IF buffer = <<>>
           THEN /\ run_pc' = "loop"
                /\ UNCHANGED <<buffer, dispatched, err_pos, err_dispatched>>
           ELSE IF r.kind = "eof"
           THEN /\ buffer' = on_decode_eof(buffer)
                /\ run_pc' = "loop"
                /\ UNCHANGED <<dispatched, err_pos, err_dispatched>>
           ELSE IF r.kind = "error"
           THEN /\ buffer' = on_decode_error(buffer)
                /\ run_pc' = "loop"
                /\ err_pos' = Some(pos)
                /\ err_dispatched' = Some(Len(dispatched))
                /\ UNCHANGED dispatched
           ELSE IF r.consumed <= 0
           THEN /\ run_pc' = "loop"
                /\ UNCHANGED <<buffer, dispatched, err_pos, err_dispatched>>
           ELSE /\ Ignored(r.value)
                /\ buffer' = SubSeq(buffer, r.consumed + 1, Len(buffer))
                /\ dispatched' = Append(dispatched, r.value)
                /\ UNCHANGED <<run_pc, err_pos, err_dispatched>>
    /\ UNCHANGED <<pos, routerVars>>
    /\ ReaderIdle

(***************************************************************************)
(* SpecDecode: the read loop on a device that sends well-formed frames     *)
(* and corrupt bytes, read in chunks of every size.                        *)
(***************************************************************************)
MaxUnits == 3

\* well-formed data items: {"t": 0}, 1, [0]
Frames == { <<161, 97, 116, 0>>, <<1>>, <<129, 0>> }

\* bytes that are not at a frame boundary: a reserved initial byte, the same
\* followed by a map header, a map whose key is malformed
Garbage == { <<28>>, <<28, 161>>, <<161, 28, 0>> }

RECURSIVE SeqsUpTo(_, _)
\* the sequences of at most n elements of set
SeqsUpTo(set, n) ==
    IF n = 0 THEN {<<>>}
    ELSE LET shorter == SeqsUpTo(set, n - 1)
         IN  shorter \cup {Append(sq, x) : sq \in shorter, x \in set}

\* the reader at line 346: the port is open, getv was sent, nothing is read
InitDecode ==
    /\ InitRouter
    /\ serial = "open"
    /\ stop_event = FALSE
    /\ write_lock = 0 - 1
    /\ run_pc = "loop"
    /\ buffer = <<>>
    /\ send_pc = [t \in Threads |-> IF t = Worker THEN "return396" ELSE "idle"]
    /\ payload = [t \in Threads |-> IF t = Worker THEN Getv ELSE PyNone]
    /\ sent = [t \in Threads |-> IF t = Worker THEN Len(GetvBytes) ELSE 0]
    /\ flushed = {Worker}
    /\ stop_pc = "idle"
    /\ units \in SeqsUpTo(Frames \cup Garbage, MaxUnits)
    /\ pos = 0
    /\ wire = [k \in 1..Len(GetvBytes) |-> <<Worker, GetvBytes[k]>>]
    /\ dispatched = <<>>
    /\ err_pos = None
    /\ err_dispatched = None

NextDecode ==
    \/ LoopCheck
    \/ \E k \in 1..(MaxUnits * 4) : ReadChunk(k)
    \/ ReadEmpty
    \/ ReadError
    \/ DecodeStep

SpecDecode == InitDecode /\ [][NextDecode]_vars

(***************************************************************************)
(* Properties of the read loop (SpecDecode).                               *)
(***************************************************************************)
RECURSIVE ConcatOfFrames(_)
\* bytes is a concatenation of well-formed data items
ConcatOfFrames(bytes) ==
    \/ bytes = <<>>
    \/ LET r == decode(bytes)
       IN  /\ r.kind = "ok"
           /\ ConcatOfFrames(SubSeq(bytes, r.consumed + 1, Len(bytes)))

IsPrefix(short, long) ==
    /\ Len(short) <= Len(long)
    /\ short = SubSeq(long, 1, Len(short))

\* the worker is between two passes of the outer loop
AtLoopHead == run_pc \in {"loop", "read"}

\* C3: when the device sends a concatenation of well-formed messages, then
\* however the reads split it into chunks, the messages passed to
\* _handle_message are at every moment a prefix of, and once everything is
\* read and decoded exactly, the messages dispatched when the whole stream
\* arrives in one chunk: same messages, same order, each once.
C3_ChunkInvariance ==
    ConcatOfFrames(stream) =>
        /\ IsPrefix(dispatched, DecodeAll(stream))
        /\ (pos = Len(stream) /\ AtLoopHead) => dispatched = DecodeAll(stream)

\* a read ended inside a frame after an earlier message was dispatched
C3_Witness ==
    /\ ConcatOfFrames(stream)
    /\ Len(units) >= 2
    /\ run_pc = "loop"
    /\ buffer # <<>>
    /\ dispatched # <<>>

\* the messages dispatched since the last buffer.clear()
SinceDiscard == SubSeq(dispatched, err_dispatched[1] + 1, Len(dispatched))

\* the bytes the device sends after those read before the last buffer.clear()
AfterDiscard == SubSeq(stream, err_pos[1] + 1, Len(stream))

\* the inner loop is about to fail with a decode error at the buffer head
DecodeFails == run_pc = "decode" /\ buffer # <<>> /\ decode(buffer).kind = "error"

\* the offset in the stream of the first byte of unit u
Offset(u) == Len(Flatten(SubSeq(units, 1, u - 1)))

\* C4 as stated, its last clause: after a decode error, every well-formed
\* frame whose bytes all arrive in later reads is decoded and dispatched.
C4_LaterFrameDecoded ==
    (err_pos # None /\ pos = Len(stream) /\ AtLoopHead) =>
        \A u \in 1..Len(units) :
            (ConcatOfFrames(units[u]) /\ Offset(u) >= err_pos[1]) =>
                \E k \in (err_dispatched[1] + 1)..Len(dispatched) :
                    dispatched[k] = decode(units[u]).value

\* C4, amended: a decode error at the buffer head empties the whole buffer,
\* leaves the messages already dispatched in place, and returns to the outer
\* loop; and when the bytes that arrive in later reads are a concatenation
\* of well-formed frames (the first later read starts at a frame boundary),
\* exactly those frames are decoded and dispatched, in order.
C4_DiscardThenResume ==
    /\ [][DecodeFails => (buffer' = <<>> /\ dispatched' = dispatched /\ run_pc' = "loop")]_vars
    /\ [][IsPrefix(dispatched, dispatched')]_vars
    /\ []((err_pos # None /\ ConcatOfFrames(AfterDiscard)) =>
            /\ IsPrefix(SinceDiscard, DecodeAll(AfterDiscard))
            /\ (pos = Len(stream) /\ AtLoopHead) => SinceDiscard = DecodeAll(AfterDiscard))

\* a buffer was discarded after a message had been dispatched from it, and a
\* frame read later was dispatched
C4_Witness ==
    /\ err_pos # None
    /\ err_dispatched[1] >= 1
    /\ ConcatOfFrames(AfterDiscard)
    /\ Len(dispatched) > err_dispatched[1]
    /\ pos = Len(stream)
    /\ AtLoopHead

(***************************************************************************)
(* send_command (lines 381-396), run()'s start (lines 338-346) and stop()  *)
(* (lines 329-335).  send_pc[t] is "idle" before the call, "call" at line  *)
(* 382, "lock" at line 390, "write" and "flush" inside the with block,     *)
(* "return383", "return388", "return395" (False) or "return396" (True)     *)
(* after it, and "raised" if an exception left send_command.  serial.write *)
(* puts out one byte per step; it and flush raise SerialException on a     *)
(* port that is not open, and on an I/O error at any moment.               *)
(***************************************************************************)
\* a handler that lets the exception of a failed write through
send_except_write_uncaught(exc) == "raised"

\* lines 386-388: except (TypeError, ValueError)
send_except_encode(exc) ==
    IF exc \in {"TypeError", "ValueError"} THEN "return388" ELSE "raised"

\* lines 393-395: except serial.SerialException
send_except_write(exc) ==
    IF exc = "SerialException" THEN "return395" ELSE "raised"

\* a with block that does not take the lock
lock_free(t) == TRUE

\* line 390: with self._write_lock can be entered
lock_acquirable(t) == write_lock = 0 - 1

SendIdle == UNCHANGED <<stop_event, run_pc, buffer, stop_pc, units, pos, dispatched,
                        err_pos, err_dispatched, routerVars>>

\* an HTTP handler calls send_command (lines 490, 514)
HttpCall(t, command) ==
    /\ send_pc[t] = "idle"
    /\ send_pc' = [send_pc EXCEPT ![t] = "call"]
    /\ payload' = [payload EXCEPT ![t] = command]
    /\ UNCHANGED <<serial, write_lock, sent, flushed, wire>>
    /\ SendIdle

\* lines 382-388: the open check, then cbor2.dumps
SendCheck(t) ==
    /\ send_pc[t] = "call"
    /\ send_pc' = [send_pc EXCEPT ![t] =
                      IF serial # "open" THEN "return383"
                      ELSE IF ~Encodable(payload[t]) THEN send_except_encode("TypeError")
                      ELSE "lock"]
    /\ UNCHANGED <<serial, write_lock, payload, sent, flushed, wire>>
    /\ SendIdle

\* line 390: the lock is taken
SendLock(t) ==
    /\ send_pc[t] = "lock"
    /\ lock_acquirable(t)
    /\ write_lock' = t
    /\ send_pc' = [send_pc EXCEPT ![t] = "write"]
    /\ UNCHANGED <<serial, payload, sent, flushed, wire>>
    /\ SendIdle

\* leaving the with block releases the lock if this thread holds it
Release(t) == write_lock' = IF write_lock = t THEN 0 - 1 ELSE write_lock

\* line 391: serial.write puts out the next byte
SendWrite(t) ==
    /\ send_pc[t] = "write"
    /\ serial = "open"
    /\ wire' = Append(wire, <<t, dumps(payload[t])[sent[t] + 1]>>)
    /\ sent' = [sent EXCEPT ![t] = sent[t] + 1]
    /\ send_pc' = [send_pc EXCEPT ![t] =
                      IF sent[t] + 1 = Len(dumps(payload[t])) THEN "flush" ELSE "write"]
    /\ UNCHANGED <<serial, write_lock, payload, flushed>>
    /\ SendIdle

\* lines 391-395: serial.write or serial.flush raises SerialException
SendFail(t) ==
    /\ send_pc[t] \in {"write", "flush"}
    /\ send_pc' = [send_pc EXCEPT ![t] = send_except_write("SerialException")]
    /\ Release(t)
    /\ UNCHANGED <<serial, payload, sent, flushed, wire>>
    /\ SendIdle

\* lines 392, 396: serial.flush returns; send_command returns True
SendFlush(t) ==
    /\ send_pc[t] = "flush"
    /\ serial = "open"
    /\ flushed' = flushed \cup {t}
    /\ send_pc' = [send_pc EXCEPT ![t] = "return396"]
    /\ Release(t)
    /\ UNCHANGED <<serial, payload, sent, wire>>
    /\ SendIdle

\* run without the return of line 342: after a failed open the worker goes on
\* as after a successful one, with no port
Open_unchecked ==
    /\ run_pc = "open"
    /\ serial' \in {"open", serial}
    /\ run_pc' = "getv"
    /\ send_pc' = [send_pc EXCEPT ![Worker] = "call"]
    /\ payload' = [payload EXCEPT ![Worker] = Getv]
    /\ UNCHANGED <<stop_event, write_lock, buffer, sent, flushed, stop_pc, units, pos, wire,
                   dispatched, err_pos, err_dispatched, routerVars>>

\* lines 338-345: serial.Serial(...) opens the port, or raises and run returns
Open ==
    /\ run_pc = "open"
    /\ \/ /\ serial' = "open"
          /\ run_pc' = "getv"
          /\ send_pc' = [send_pc EXCEPT ![Worker] = "call"]
          /\ payload' = [payload EXCEPT ![Worker] = Getv]
       \/ /\ run_pc' = "failed"
          /\ UNCHANGED <<serial, send_pc, payload>>
    /\ UNCHANGED <<stop_event, write_lock, buffer, sent, flushed, stop_pc, units, pos, wire,
                   dispatched, err_pos, err_dispatched, routerVars>>

\* lines 345-346: send_command has returned to run; buffer = bytearray()
GetvDone ==
    /\ run_pc = "getv"
    /\ send_pc[Worker] \notin {"call", "lock", "write", "flush"}
    /\ run_pc' = IF send_pc[Worker] = "raised" THEN "raised" ELSE "loop"
    /\ buffer' = <<>>
    /\ UNCHANGED <<pos, dispatched, err_pos, err_dispatched, routerVars>>
    /\ ReaderIdle

\* line 330: stop() sets the event
StopSet ==
    /\ stop_pc = "idle"
    /\ stop_event' = TRUE
    /\ stop_pc' = "close"
    /\ UNCHANGED <<serial, write_lock, run_pc, buffer, send_pc, payload, sent, flushed,
                   units, pos, wire, dispatched, err_pos, err_dispatched, routerVars>>

\* lines 331-335: stop() closes the port if there is one; no lock is taken
StopClose ==
    /\ stop_pc = "close"
    /\ serial' = IF serial = "none" THEN "none" ELSE "closed"
    /\ stop_pc' = "done"
    /\ UNCHANGED <<stop_event, write_lock, run_pc, buffer, send_pc, payload, sent, flushed,
                   units, pos, wire, dispatched, err_pos, err_dispatched, routerVars>>

(***************************************************************************)
(* SpecSend: the worker starts and sends getv, each HTTP handler thread    *)
(* sends one command, stop() is called once, at any moment.  The read     *)
(* loop, which writes nothing, is left to SpecDecode.                      *)
(***************************************************************************)
Commands == {Getc, CfgCommand, Unencodable}

NextSend ==
    \/ Open
    \/ GetvDone
    \/ StopSet
    \/ StopClose
    \/ \E t \in HttpThreads : \E command \in Commands : HttpCall(t, command)
    \/ \E t \in Threads :
          \/ SendCheck(t)
          \/ SendLock(t)
          \/ SendWrite(t)
          \/ SendFail(t)
          \/ SendFlush(t)

SpecSend == Init /\ [][NextSend]_vars

(***************************************************************************)
(* Properties of send_command (SpecSend).                                  *)
(***************************************************************************)
\* the positions of the wire that hold a byte written by thread t
Positions(t) == {k \in 1..Len(wire) : wire[k][1] = t}

\* the bytes thread t has written, in the order they went out
BytesBy(t) ==
    LET own == SelectSeq(wire, LAMBDA entry : entry[1] = t)
    IN  [k \in 1..Len(own) |-> own[k][2]]

Returned(t) == send_pc[t] \in {"return383", "return388", "return395", "return396"}

\* send_command returned True
ReturnedTrue(t) == send_pc[t] = "return396"

\* send_command returned False
ReturnedFalse(t) == send_pc[t] \in {"return383", "return388", "return395"}

\* C5: send_command never raises to its caller; a call that finds the port
\* absent or not open returns False; a call whose payload cannot be encoded
\* returns False; a call whose write or flush fails returns False, also when
\* stop() closed the port after the open check; it returns True only when
\* all the encoded bytes were written and flushed.
C5_SendNeverRaises ==
    /\ [](\A t \in Threads :
            /\ send_pc[t] # "raised"
            /\ ReturnedTrue(t) =>
                   /\ Encodable(payload[t])
                   /\ BytesBy(t) = dumps(payload[t])
                   /\ t \in flushed
            /\ (Returned(t) /\ ~Encodable(payload[t])) => ReturnedFalse(t))
    /\ [][\A t \in Threads :
             (send_pc[t] = "call" /\ serial # "open" /\ send_pc'[t] # "call")
                 => ReturnedFalse(t)']_vars
    /\ [][\A t \in Threads :
             (send_pc[t] \in {"write", "flush"} /\ serial # "open"
              /\ send_pc'[t] # send_pc[t])
                 => ReturnedFalse(t)']_vars

\* a call passed the open check, stop() closed the port before its first
\* byte went out, and it returned False
C5_Witness ==
    \E t \in Threads :
        /\ send_pc[t] = "return395"
        /\ sent[t] = 0
        /\ serial = "closed"
        /\ stop_pc = "done"

\* no byte of another command lies between two bytes of thread t's command
Contiguous(t) ==
    \/ Positions(t) = {}
    \/ \E first \in Positions(t) :
          Positions(t) = first..(first + Cardinality(Positions(t)) - 1)

\* C6 as stated: the wire is a concatenation of whole encoded commands (a
\* command is on the wire whole or not at all, once its write is over).
C6_WholeCommands ==
    \A t \in Threads :
        /\ Contiguous(t)
        /\ send_pc[t] # "write" => (BytesBy(t) = <<>> \/ BytesBy(t) = dumps(payload[t]))

\* C6, amended: for the worker's getv and the HTTP handlers' commands sent
\* concurrently, no byte of one command is written between two bytes of
\* another, and the bytes of each command on the wire are its encoding:
\* whole when its write returned, a prefix of it when its write failed.
C6_NoInterleaving ==
    \A t \in Threads :
        /\ Contiguous(t)
        /\ BytesBy(t) # <<>> => IsPrefix(BytesBy(t), dumps(payload[t]))
        /\ send_pc[t] \in {"flush", "return396"} => BytesBy(t) = dumps(payload[t])

\* one thread is in the middle of its write while another waits for the lock
C6_Witness ==
    \E t1 \in Threads : \E t2 \in Threads \ {t1} :
        /\ send_pc[t1] = "write"
        /\ sent[t1] >= 1
        /\ send_pc[t2] = "lock"

(***************************************************************************)
(* Properties of the sensor flags and the derived label (SpecState).       *)
(***************************************************************************)
\* the label the two flags stand for: both blocked, exactly one blocked and
\* the other clear, both clear; none when a flag is unknown
FlagsLabel ==
    CASE sensor_active[0] = Some(TRUE) /\ sensor_active[1] = Some(TRUE) ->
             Some(Label("Both sensors blocked", <<>>))
      [] sensor_active[0] = Some(TRUE) /\ sensor_active[1] = Some(FALSE) ->
             Some(Label("Sensor 0 blocked", <<>>))
      [] sensor_active[0] = Some(FALSE) /\ sensor_active[1] = Some(TRUE) ->
             Some(Label("Sensor 1 blocked", <<>>))
      [] sensor_active[0] = Some(FALSE) /\ sensor_active[1] = Some(FALSE) ->
             Some(Label("Idle", <<>>))
      [] OTHER -> None

\* the last event handled was a transit and its hold has expired
HoldExpired ==
    /\ after_transit
    /\ transit_at # None
    /\ now >= transit_at[1] + FINISH_HOLD_S

\* C11: a snapshot taken after the hold of a transit has expired, no event
\* having been handled since the transit, reports the label the two sensor
\* flags stand for; and so does every snapshot that is not finishing while
\* no label is stored.
C11_DerivedLabel ==
    /\ HoldExpired => (~snapshot.finishing /\ snapshot.state = FlagsLabel)
    /\ (~snapshot.finishing /\ state_label = None) => snapshot.state = FlagsLabel

\* the hold of a transit has expired with sensor 0 unknown and sensor 1 clear
C11_Witness ==
    /\ HoldExpired
    /\ sensor_active[0] = None
    /\ sensor_active[1] = Some(FALSE)
    /\ snapshot.state = None

(***************************************************************************)
(* Properties of MeasurementStore (SpecRecent).                            *)
(***************************************************************************)
\* the smaller of two numbers
Min(a, b) == IF a <= b THEN a ELSE b

\* record is the record of the transit message msg, whenever it was received
RecordOf(record, msg) ==
    [record EXCEPT !.received_at = 0, !.received_iso = StrfTime(0)]
        = [Measurement(msg) EXCEPT !.received_at = 0, !.received_iso = StrfTime(0)]

\* C12: once the worker is done with the k transit messages that arrived,
\* recent() returns the records of the last min(k, 10) of them, newest first;
\* messages of other types leave it as it is.
C12_RecentLastTen ==
    worker \in {"idle", "raised"} =>
        /\ Len(recent) = Min(Len(arrived), maxlen)
        /\ \A k \in 1..Len(recent) : RecordOf(recent[k], arrived[Len(arrived) + 1 - k])

(***************************************************************************)
(* SpecLife: the life of the worker thread from start() to its end: open,  *)
(* getv, the read loop on a short stream, with stop() called at any        *)
(* moment, also twice, and an HTTP handler asking for a refresh.           *)
(***************************************************************************)
\* lines 331-335: close() raises SerialException, which stop() swallows; the
\* port is left as it was
StopCloseFails ==
    /\ stop_pc = "close"
    /\ serial # "none"
    /\ stop_pc' = "caught"
    /\ UNCHANGED <<serial, stop_event, write_lock, run_pc, buffer, send_pc, payload, sent,
                   flushed, units, pos, wire, dispatched, err_pos, err_dispatched,
                   routerVars>>

\* stop() is called again (line 330)
StopAgain ==
    /\ stop_pc \in {"done", "caught"}
    /\ stop_event' = TRUE
    /\ stop_pc' = "close"
    /\ UNCHANGED <<serial, write_lock, run_pc, buffer, send_pc, payload, sent, flushed,
                   units, pos, wire, dispatched, err_pos, err_dispatched, routerVars>>

MaxChunk == 2

\* what the device sends: nothing; the frame 1; a reserved byte, then [0]
LifeStreams == { <<>>, << <<1>> >>, << <<28>>, <<129, 0>> >> }

\* SerialReader.__init__ and start(): as InitReader, with a device attached
InitLife ==
    /\ InitRouter
    /\ serial = "none"
    /\ stop_event = FALSE
    /\ write_lock = 0 - 1
    /\ run_pc = "open"
    /\ buffer = <<>>
    /\ send_pc = [t \in Threads |-> "idle"]
    /\ payload = [t \in Threads |-> PyNone]
    /\ sent = [t \in Threads |-> 0]
    /\ flushed = {}
    /\ stop_pc = "idle"
    /\ units \in LifeStreams
    /\ pos = 0
    /\ wire = <<>>
    /\ dispatched = <<>>
    /\ err_pos = None
    /\ err_dispatched = None

\* a step of the worker thread
WorkerStep ==
    \/ Open
    \/ SendCheck(Worker)
    \/ SendLock(Worker)
    \/ SendWrite(Worker)
    \/ SendFail(Worker)
    \/ SendFlush(Worker)
    \/ GetvDone
    \/ LoopCheck
    \/ \E k \in 1..MaxChunk : ReadChunk(k)
    \/ ReadEmpty
    \/ ReadError
    \/ DecodeStep

\* a step of the thread that calls stop()
StopStep ==
    \/ StopSet
    \/ StopClose
    \/ StopCloseFails
    \/ StopAgain

\* a step of the thread that serves /api/config
HttpStep ==
    \E t \in {Refresher} :
        \/ HttpCall(t, Getc)
        \/ SendCheck(t)
        \/ SendLock(t)
        \/ SendWrite(t)
        \/ SendFail(t)
        \/ SendFlush(t)

NextLife == WorkerStep \/ StopStep \/ HttpStep

SpecLife == InitLife /\ [][NextLife]_vars

\* the worker thread has ended: its loop exited, the open failed, or an
\* exception left run()
WorkerEnded == run_pc \in {"stopped", "failed", "raised"}

\* C13: once stop() has returned (with close() not having failed) and the
\* worker thread has ended, the connection is not open any more.
C13_StopCloses == (stop_pc = "done" /\ WorkerEnded) => serial # "open"

\* the open was attempted and there is no port: serial.Serial(...) raised
OpenFailed == serial = "none" /\ run_pc # "open"

\* C14: after a failed open the worker has ended and takes no further step
\* (no second open, no command, no read, no dispatch), nothing was written
\* or read, the stores are as constructed, snapshot() and recent() give the
\* empty answers, and every send_command that returned returned False.
C14_OpenFailureIsFinal ==
    OpenFailed =>
        /\ run_pc = "failed"
        /\ ~ENABLED WorkerStep
        /\ send_pc[Worker] = "idle"
        /\ wire = <<>>
        /\ pos = 0 /\ buffer = <<>> /\ dispatched = <<>>
        /\ InitStores
        /\ recent = <<>>
        /\ snapshot.state = None /\ ~snapshot.finishing
        /\ \A t \in Threads : Returned(t) => send_pc[t] = "return383"

\* the open failed, a handler's send_command returned, stop() was called
C14_Witness ==
    /\ run_pc = "failed"
    /\ send_pc[Refresher] = "return383"
    /\ stop_pc = "done"

\* the worker is in its read loop or has left it through line 379
InLoop == run_pc \in {"loop", "read", "decode", "stopped"}

\* C15: after a successful open the worker calls send_command({"t": "getv"})
\* once: the call has been made as soon as the port is open, it has returned
\* before the loop is entered and before any byte is read, and whatever the
\* loop meets, the worker's bytes on the wire never go beyond one getv.
C15_GetvOnce ==
    /\ (serial # "none") => (send_pc[Worker] # "idle" /\ payload[Worker] = Getv)
    /\ InLoop => Returned(Worker)
    /\ ~Returned(Worker) => (pos = 0 /\ dispatched = <<>>)
    /\ IsPrefix(BytesBy(Worker), GetvBytes)
    /\ ReturnedTrue(Worker) => BytesBy(Worker) = GetvBytes

\* the loop has met a decode error and a message, and is still running,
\* with one getv on the wire
C15_Witness ==
    /\ run_pc = "read"
    /\ err_pos # None
    /\ dispatched # <<>>
    /\ BytesBy(Worker) = GetvBytes

(***************************************************************************)
(* Properties of the state event (SpecState).                              *)
(***************************************************************************)
\* the state event of sensor s with code c
StateEvent(s, c) == Packet("state", << <<"s", PyInt(s)>>, <<"st", PyStr(c)>> >>)

\* the label the claim gives to the event
ClaimedLabel(s, c) ==
    Label(CASE s = 0 /\ c = "blk" -> "Sensor 0 blocked"
            [] s = 0 /\ c = "clr" -> "Sensor 0 clear"
            [] s = 1 /\ c = "blk" -> "Sensor 1 blocked"
            [] s = 1 /\ c = "clr" -> "Sensor 1 clear", <<>>)

\* C16: handling state(s, c), s in {0, 1}, c in {"blk", "clr"}, sets the flag
\* of sensor s to (c = "blk") and leaves the other flag alone; it stores the
\* label "Sensor s blocked"/"Sensor s clear" if the stored waiting flag is not
\* true and leaves the label alone if it is; expected_sensor,
\* expected_direction and waiting are unchanged.
C16_StateEvent ==
    [][\A s \in {0, 1} : \A c \in {"blk", "clr"} :
          State(StateEvent(s, c)) =>
              /\ sensor_active'[s] = Some(c = "blk")
              /\ sensor_active'[1 - s] = sensor_active[1 - s]
              /\ state_label' = IF waiting # Some(TRUE) THEN Some(ClaimedLabel(s, c))
                                ELSE state_label
              /\ UNCHANGED <<expected_sensor, expected_direction, waiting>>]_vars

\* after start and finish, state(1, "clr") has been handled: waiting is
\* False, the flag is set and the label of the finish event is overwritten
C16_Witness ==
    /\ waiting = Some(FALSE)
    /\ sensor_active[1] = Some(FALSE)
    /\ state_label = Some(ClaimedLabel(1, "clr"))
    /\ finishing_label # None

\* C18: a state event never makes a known flag unknown.
C18_KnownStaysKnown ==
    [][\A i \in {0, 1} : sensor_active[i] # None => sensor_active'[i] # None]_vars

(***************************************************************************)
(* SpecWait: the six events that set or clear the waiting flag, with       *)
(* numeric fields inside and beyond the range of a float.                  *)
(***************************************************************************)
MaxWaitTime == 1

MaxWaitTransits == 1

\* start and wait messages
SettingMessages ==
    { Packet("start", << <<"s", PyInt(0)>> >>),
      Packet("wait", << <<"f", PyInt(1)>>, <<"el", PyFloat(3)>>, <<"to", PyInt(5)>> >>),
      Packet("wait", << <<"f", PyInt(0)>>, <<"el", PyInt(BigInt)>> >>) }

\* finish, timeout, reject and transit messages
ClearingMessages ==
    { Packet("finish", << <<"s", PyInt(1)>> >>),
      Packet("timeout", << <<"el", PyFloat(10)>> >>),
      Packet("timeout", << <<"el", PyInt(BigInt)>> >>),
      Packet("reject", << <<"dt", PyInt(1500)>>, <<"min", PyInt(2000)>> >>),
      Packet("reject", << <<"dt", PyInt(BigInt)>>, <<"min", PyInt(2000)>> >>),
      TransitMessage(PyInt(0), PyInt(1), PyInt(30)) }

NextWait ==
    \/ Tick(MaxWaitTime)
    \/ Add
    \/ update_measurement
    \/ \E msg \in SettingMessages : Start(msg) \/ Wait(msg)
    \/ \E msg \in ClearingMessages :
          \/ Finish(msg)
          \/ Timeout(msg)
          \/ Reject(msg)
          \/ Transit(msg, MaxWaitTransits)

SpecWait == Init /\ [][NextWait]_vars

\* waiting is False and the four fields of the wait are absent
WaitCleared(w, es, ed, el, to) ==
    /\ w = Some(FALSE)
    /\ es = None
    /\ ed = None
    /\ el = None
    /\ to = None

\* C17: right after a finish, timeout, reject or transit event the stored
\* waiting flag is False and expected_sensor, expected_direction, the wait's
\* elapsed time and its timeout are absent; right after a start or wait event
\* the stored waiting flag is True.
C17_WaitingAfterEvent ==
    [][/\ \A msg \in ClearingMessages :
            (Finish(msg) \/ Timeout(msg) \/ Reject(msg) \/ Transit(msg, MaxWaitTransits))
                => WaitCleared(waiting', expected_sensor', expected_direction',
                               wait_elapsed_s', wait_timeout_s')
       /\ \A msg \in SettingMessages :
            (Start(msg) \/ Wait(msg)) => waiting' = Some(TRUE)]_vars

(***************************************************************************)
(* SpecInfo: sensor events with valid, missing and malformed fields for    *)
(* both sensors, between the events of a transit.                          *)
(***************************************************************************)
MaxInfoTime == 1

MaxInfoTransits == 1

SensorEvent(s, fields) == Packet("sensor", << <<"s", PyInt(s)>> >> \o fields)

Drv(entries) == <<"drv", PyList(entries)>>

Prod(entries) == <<"prod", PyList(entries)>>

\* all three fields valid; the driver alone; an empty driver array, a short
\* product array and a non-integral uid; a boolean and a non-integral entry
\* with a valid uid; the uid alone; a product array of four entries; a driver
\* entry beyond the range of a float
SensorMessages ==
    { SensorEvent(0, << Drv(<<PyInt(1), PyInt(2)>>),
                        Prod(<<PyInt(3), PyInt(1), PyInt(0)>>), <<"uid", PyInt(7)>> >>),
      SensorEvent(0, << Drv(<<PyInt(2), PyFloat(0)>>) >>),
      SensorEvent(0, << Drv(<<>>), Prod(<<PyInt(3), PyInt(1)>>), <<"uid", PyFloat(3)>> >>),
      SensorEvent(0, << Drv(<<PyInt(1), PyBool(TRUE)>>),
                        Prod(<<PyInt(3), PyFloat(3), PyInt(0)>>), <<"uid", PyInt(9)>> >>),
      SensorEvent(1, << <<"uid", PyInt(9)>> >>),
      SensorEvent(1, << Prod(<<PyInt(4), PyInt(0), PyInt(1), PyStr("x")>>),
                        <<"uid", PyBool(TRUE)>> >>),
      SensorEvent(1, << Drv(<<PyInt(BigInt)>>), <<"uid", PyInt(7)>> >>) }

\* the events of a transit from sensor 0 to sensor 1
InfoSpecMessages ==
    SensorMessages
    \cup { Packet("state", << <<"s", PyInt(0)>>, <<"st", PyStr("blk")>> >>),
           Packet("start", << <<"s", PyInt(0)>> >>),
           TransitMessage(PyInt(0), PyInt(1), PyInt(30)) }

NextInfo ==
    \/ Tick(MaxInfoTime)
    \/ Add
    \/ update_measurement
    \/ \E msg \in InfoSpecMessages :
          \/ Sensor(msg)
          \/ State(msg)
          \/ Start(msg)
          \/ Transit(msg, MaxInfoTransits)

SpecInfo == Init /\ [][NextInfo]_vars

\* a field of the cache after the event: the old value if the message's
\* value is missing or invalid (parsed = None); else the old or the parsed
\* value, and the parsed one if the handler returned
MergedField(old, new, parsed, returned) ==
    /\ new \in {old, parsed}
    /\ parsed = None => new = old
    /\ (returned /\ parsed # None) => new = parsed

SpecLifeFair == SpecLife /\ WF_vars(WorkerStep) /\ WF_vars(HttpStep)

\* the worker has left run(): through line 379 or through line 342
LoopExited == run_pc \in {"stopped", "failed"}

\* C20: once stop() has set the flag the worker eventually leaves run();
\* the inner decode loop always comes back to the loop head, and so does a
\* read, whether it returns bytes, returns nothing or fails.
C20_StopTerminates ==
    /\ stop_event ~> LoopExited
    /\ (run_pc = "decode") ~> (run_pc = "loop")
    /\ (run_pc = "read") ~> (run_pc = "loop")

\* the worker has left its loop after stop(), having read and dispatched
C20_Witness ==
    /\ stop_event
    /\ run_pc = "stopped"
    /\ pos > 0
    /\ dispatched # <<>>

(***************************************************************************)
(* Invariants of the stored wait (Spec).                                   *)
(***************************************************************************)
\* C23: in every state of SensorStateStore a stored expected_sensor, a stored
\* wait elapsed time and a stored wait timeout are present only while the
\* stored waiting flag is True; so a snapshot() that reports waiting False
\* and finishing False reports all three absent.
C23_WaitFieldsOnlyWhileWaiting ==
    /\ expected_sensor # None => waiting = Some(TRUE)
    /\ (wait_elapsed_s # None \/ wait_timeout_s # None) => waiting = Some(TRUE)
    /\ (snapshot.waiting = Some(FALSE) /\ ~snapshot.finishing) =>
           /\ snapshot.expected_sensor = None
           /\ snapshot.wait_elapsed_s = None
           /\ snapshot.wait_timeout_s = None

\* a wait was started at sensor 0 and ended by a transit whose hold has run
\* out: snapshot() reports waiting False and finishing False
C23_Witness ==
    /\ snapshot.waiting = Some(FALSE)
    /\ ~snapshot.finishing
    /\ last_start_sensor = Some(0)
    /\ finishing_until # None

(***************************************************************************)
(* A transit message and the readers (Spec).  snapshot and recent are      *)
(* evaluated in every state, the states between the worker's three         *)
(* critical sections included: each is a moment at which an HTTP handler   *)
(* can take the lock and read.                                             *)
(***************************************************************************)
\* snapshot() shows the Finishing state a transit message entered
ShowsReadingComplete ==
    /\ snapshot.finishing
    /\ snapshot.state = Some(Label("Reading complete", <<>>))

\* C22: a snapshot() that shows the Finishing state of a transit message
\* shows the record of that message as last_measurement; and whenever the
\* worker is between messages, the last_measurement of snapshot() is the
\* first record of recent(), or absent if recent() is empty.
C22_TransitAtomic ==
    /\ ShowsReadingComplete =>
           /\ arrived # <<>>
           /\ snapshot.last_measurement # None
           /\ RecordOf(snapshot.last_measurement[1], arrived[Len(arrived)])
    /\ worker = "idle" =>
           snapshot.last_measurement = IF recent = <<>> THEN None ELSE Some(recent[1])

(***************************************************************************)
(* SpecLocks: who holds which lock.  Every method of the four stores is    *)
(* one "with self._lock" block (lines 48, 52, 63, 68, 91, 103, 147, 151,   *)
(* 203-299); a call of the worker or of an HTTP handler is the sequence    *)
(* of store locks it takes, each released before the next is asked for.    *)
(* send_command and its write lock are the actions of SpecSend.  What the  *)
(* critical sections write is left to Spec.                                *)
(***************************************************************************)
MaxLockCalls == 1

\* _handle_message by message: nothing locked (lines 400, 404-406, 131-132,
\* 143, 294-295, 86-87); version (line 405); cfg (line 413); an event of the
\* state machine (line 415); transit (lines 415, 437, 438)
WorkerPrograms ==
    { <<>>,
      <<"device">>,
      <<"config">>,
      <<"state">>,
      <<"state", "measurements", "state">> }

\* index and settings (lines 449, 460); api_measurements (lines 471-472);
\* api_state (line 523)
ViewerPrograms ==
    { <<"device">>,
      <<"measurements", "device">>,
      <<"state">> }

\* thread t begins a call that takes the locks of prog, one after the other
Begin(t, prog, limit) ==
    /\ at[t].prog = <<>>
    /\ ~at[t].holding
    /\ at[t].calls < limit
    /\ at' = [at EXCEPT ![t] = [prog |-> prog, holding |-> FALSE, calls |-> @.calls + 1]]
    /\ UNCHANGED <<locks, routerState, readerState>>

\* line 377: the worker, in its loop, handles the next message
WorkerHandle(prog) ==
    /\ run_pc = "loop"
    /\ Begin(Worker, prog, MaxLockCalls)

\* an HTTP handler serves a page or a read-only route
ViewerRequest(prog) ==
    /\ prog \in ViewerPrograms
    /\ Begin(Viewer, prog, MaxLockCalls)

\* api_config, line 491: config_store.snapshot() after send_command returned
RefresherSnapshot ==
    /\ send_pc[Refresher] \in {"return383", "return388", "return395", "return396"}
    /\ Begin(Refresher, <<"config">>, 1)

\* "with self._lock:" is entered: the lock was free
Acquire(t) ==
    /\ at[t].prog # <<>>
    /\ ~at[t].holding
    /\ locks[Head(at[t].prog)] = 0 - 1
    /\ locks' = [locks EXCEPT ![Head(at[t].prog)] = t]
    /\ at' = [at EXCEPT ![t].holding = TRUE]
    /\ UNCHANGED <<routerState, readerState>>

\* a method that returns to its caller with its lock still held, until the
\* whole call is over
Leave_late(t) ==
    /\ at[t].holding
    /\ at' = [at EXCEPT ![t].prog = Tail(@), ![t].holding = FALSE]
    /\ locks' = IF Len(at[t].prog) = 1
                THEN [l \in StoreLocks |-> IF locks[l] = t THEN 0 - 1 ELSE locks[l]]
                ELSE locks
    /\ UNCHANGED <<routerState, readerState>>

\* the with block is left, by return or by exception: the lock is free
Leave(t) ==
    /\ at[t].holding
    /\ locks' = [locks EXCEPT ![Head(at[t].prog)] = 0 - 1]
    /\ at' = [at EXCEPT ![t].prog = Tail(@), ![t].holding = FALSE]
    /\ UNCHANGED <<routerState, readerState>>

\* a step of send_command in the worker (getv) or in api_config (getc)
SenderStep ==
    \E t \in {Worker, Refresher} :
        \/ SendCheck(t)
        \/ SendLock(t)
        \/ SendWrite(t)
        \/ SendFail(t)
        \/ SendFlush(t)

NextLocks ==
    \/ Open
    \/ GetvDone
    \/ HttpCall(Refresher, Getc)
    \/ SenderStep
    \/ RefresherSnapshot
    \/ \E prog \in WorkerPrograms : WorkerHandle(prog)
    \/ \E prog \in ViewerPrograms : ViewerRequest(prog)
    \/ \E t \in LockThreads : Acquire(t) \/ Leave(t)

SpecLocks == Init /\ [][NextLocks]_vars

\* SpecLocks under fair scheduling of the worker and of the viewer: a thread
\* in a critical section of a store leaves it, and a thread asking for a lock
\* that is free again and again gets it.  Nothing is assumed of a write or
\* flush under the write lock: it may never return.
SpecLocksFair ==
    /\ SpecLocks
    /\ WF_vars(Leave(Worker))
    /\ WF_vars(Leave(Viewer))
    /\ SF_vars(Acquire(Viewer))

\* the locks thread t holds
Holds(t) ==
    {l \in StoreLocks : locks[l] = t} \cup (IF write_lock = t THEN {"write"} ELSE {})

\* thread t is blocked in, or about to call, the acquire of a lock
AsksForLock(t) ==
    \/ at[t].prog # <<>> /\ ~at[t].holding
    \/ t \in Threads /\ send_pc[t] = "lock"

\* C21: no thread holds two locks at once, and no thread asks for a lock
\* while it holds one; while any thread asks for a lock some thread can take
\* a step; and a call of the viewer, snapshot() included, returns whatever
\* the holder of the write lock does.
C21_LocksNeverNested ==
    /\ [](\A t \in LockThreads : Cardinality(Holds(t)) <= 1)
    /\ [](\A t \in LockThreads : AsksForLock(t) => Holds(t) = {})
    /\ []((\E t \in LockThreads : AsksForLock(t)) => ENABLED NextLocks)
    /\ (at[Viewer].prog # <<>>) ~> (at[Viewer].prog = <<>>)

\* a command write is in progress under the write lock while the viewer is
\* inside snapshot() and the worker holds the lock of the measurements
C21_Witness ==
    /\ write_lock = Refresher
    /\ send_pc[Refresher] = "write"
    /\ sent[Refresher] > 0
    /\ locks["state"] = Viewer
    /\ locks["measurements"] = Worker

====
